---- MODULE Spec2Model ----
(***************************************************************************)
(* Virtual-wallet payment orchestration of purpledove_payment:             *)
(* VirtualPayment.make_virtual_payment and the helpers it calls, run by    *)
(* concurrent requests against one document store and one payment gateway. *)
(***************************************************************************)
EXTENDS Integers, Sequences, FiniteSets, TLC

\* ------------------------------------------------------------------ bounds
MaxBalance == 2
MaxAmount == 2
MaxSaveFaults == 1

\* ------------------------------------------------------- program constants
\* MAX_RETRIES set one too high.
MAX_RETRIES_plus_one == 3 + 1

MAX_RETRIES == 3
RETRY_DELAYS == <<2, 5, 10>>
DEFAULT_WALLET_ACCOUNT == "9000136910"

\* ------------------------------------------------------------- value sets
Requests == {"r1", "r2"}
WalletNames == {"w1", "w2"}
NoWallet == "<none>"
Balances == 0 .. MaxBalance
Amounts == (0 - 1) .. MaxAmount
BankNames == {"GTB", "Unlisted"}
NoKey == "<absent>"
GatewayMessage == "Insufficient float"
Refs == {"TRX1"}
ManagerRole == "Wallet Manager"

\* str.strip() on a sequence of characters
RECURSIVE lstrip(_)
lstrip(s) == IF s # <<>> /\ Head(s) = " " THEN lstrip(Tail(s)) ELSE s

RECURSIVE rstrip(_)
rstrip(s) ==
    IF s # <<>> /\ s[Len(s)] = " " THEN rstrip(SubSeq(s, 1, Len(s) - 1)) ELSE s

\* str.strip() taking nothing off.
strip_nothing(s) == s

\* str.strip()
strip(s) == rstrip(lstrip(s))

PinAttempts == {<<>>, <<"1", "2">>, <<" ", "1", "2", " ">>, <<"2", "1">>}

\* A Payment Pin document: plaintext field, and the outcome of
\* get_decrypted_pin() ("raises" when decryption fails).
NoPinRecord == [exists |-> FALSE, pin |-> <<>>, decrypts |-> FALSE, decrypted |-> <<>>]
PlainPin == [exists |-> TRUE, pin |-> <<"1", "2">>, decrypts |-> TRUE, decrypted |-> <<>>]
EncryptedPin == [exists |-> TRUE, pin |-> <<>>, decrypts |-> TRUE, decrypted |-> <<"1", "2", " ">>]
BrokenPin == [exists |-> TRUE, pin |-> <<>>, decrypts |-> FALSE, decrypted |-> <<>>]

\* ---------------------------------------------------------------- results
\* The dict every step returns; absent keys carry neutral values.
NoData == [transactionReference |-> NoKey, amount |-> 0]
Ok(msg) == [success |-> TRUE, retry |-> FALSE, error |-> "", message |-> msg, data |-> NoData]
Err(e) == [success |-> FALSE, retry |-> FALSE, error |-> e, message |-> "", data |-> NoData]

\* ------------------------------------------------------- gateway responses
\* What one requests.post call can end in: an HTTP response, or a fault.
\* A body either fails to parse (response.json() raises the JSONDecodeError
\* the code catches) or parses to a JSON object, with or without a
\* 'message' and with or without the transfer's data.
Statuses == {200, 400, 502}
NotJson == [parses |-> FALSE, message |-> NoKey, data |-> NoData]
EmptyObject == [parses |-> TRUE, message |-> NoKey, data |-> NoData]
ErrorBody == [parses |-> TRUE, message |-> GatewayMessage, data |-> NoData]
TransferBodies ==
    [parses : {TRUE}, message : {NoKey},
     data : [transactionReference : Refs, amount : {0, 1}]]
Bodies == {NotJson, EmptyObject, ErrorBody} \cup TransferBodies
HttpResponses == [kind : {"http"}, status_code : Statuses, body : Bodies]
Fault(k) == [kind |-> k, status_code |-> 0, body |-> NotJson]
RequestFaults == {Fault("Timeout"), Fault("ConnectionError"), Fault("RequestException")}
PostOutcomes == HttpResponses \cup RequestFaults
\* What is kept of an attempt's outcome once the loop has handled it.
Seen(outcome) ==
    [kind |-> outcome.kind, status_code |-> outcome.status_code,
     parses |-> outcome.body.parses, message |-> outcome.body.message]
NoOutcome == Seen(Fault("<none>"))

\* ------------------------------------------------------------- operators
\* VirtualPayment._get_bearer_token reading the site configuration before the
\* environment.
_get_bearer_token_conf_first(src) ==
    IF src.conf_live_token # "" THEN src.conf_live_token
    ELSE IF src.LIVE_TOKEN # "" THEN src.LIVE_TOKEN
    ELSE IF src.PAYABLE_LIVE_TOKEN # "" THEN src.PAYABLE_LIVE_TOKEN
    ELSE src.settings_live_token

\* VirtualPayment._get_bearer_token: first non-empty of the four sources
\* ("" is an unset source; the result "" is None).
_get_bearer_token(src) ==
    LET env == IF src.LIVE_TOKEN # "" THEN src.LIVE_TOKEN ELSE src.PAYABLE_LIVE_TOKEN
        conf == IF env = "" THEN src.conf_live_token ELSE env
    IN  IF conf = "" THEN src.settings_live_token ELSE conf

\* VirtualPayment._get_bank_code: raises when the BanksB document is
\* missing or carries no code.
_get_bank_code(banks, bank_name) ==
    IF bank_name \in DOMAIN banks /\ banks[bank_name] # ""
    THEN [raised |-> FALSE, bank_code |-> banks[bank_name]]
    ELSE [raised |-> TRUE, bank_code |-> ""]

\* VirtualPayment.verify_transaction_pin looking for the Payment Pin record
\* before it checks the caller's role.
verify_transaction_pin_record_first(wallets, pins, wallet_name, transaction_pin, user_roles) ==
    IF wallet_name \notin DOMAIN wallets
    THEN Err("Virtual wallet not found")
    ELSE IF ~pins[wallet_name].exists
    THEN Err("No PIN found for this wallet. Please set up a PIN first.")
    ELSE IF wallets[wallet_name].role # "" /\ wallets[wallet_name].role \notin user_roles
    THEN Err("You don't have permission to access this wallet")
    ELSE LET pin_doc == pins[wallet_name] IN
         IF pin_doc.pin # <<>>
         THEN IF strip(transaction_pin) = strip(pin_doc.pin)
              THEN Ok("PIN verified successfully")
              ELSE Err("Incorrect PIN. Please try again.")
         ELSE IF ~pin_doc.decrypts
         THEN Err("Unable to verify PIN. Please contact administrator or reset your PIN.")
         ELSE IF pin_doc.decrypted = <<>>
         THEN Err("PIN not properly configured. Please reset your PIN.")
         ELSE IF strip(transaction_pin) = strip(pin_doc.decrypted)
              THEN Ok("PIN verified successfully")
              ELSE Err("Incorrect PIN. Please try again.")

\* VirtualPayment.verify_transaction_pin
verify_transaction_pin(wallets, pins, wallet_name, transaction_pin, user_roles) ==
    IF wallet_name \notin DOMAIN wallets
    THEN Err("Virtual wallet not found")
    ELSE IF wallets[wallet_name].role # "" /\ wallets[wallet_name].role \notin user_roles
    THEN Err("You don't have permission to access this wallet")
    ELSE IF ~pins[wallet_name].exists
    THEN Err("No PIN found for this wallet. Please set up a PIN first.")
    ELSE LET pin_doc == pins[wallet_name] IN
         IF pin_doc.pin # <<>>
         THEN IF strip(transaction_pin) = strip(pin_doc.pin)
              THEN Ok("PIN verified successfully")
              ELSE Err("Incorrect PIN. Please try again.")
         ELSE IF ~pin_doc.decrypts
         THEN Err("Unable to verify PIN. Please contact administrator or reset your PIN.")
         ELSE IF pin_doc.decrypted = <<>>
         THEN Err("PIN not properly configured. Please reset your PIN.")
         ELSE IF strip(transaction_pin) = strip(pin_doc.decrypted)
              THEN Ok("PIN verified successfully")
              ELSE Err("Incorrect PIN. Please try again.")

\* VirtualPayment.validate_balance_for_wallet without the sufficient-funds check.
validate_balance_no_funds_check(wallets, wallet_name, amount) ==
    IF wallet_name \notin DOMAIN wallets
    THEN [success |-> FALSE, error |-> "Error validating virtual wallet balance",
          current_balance |-> 0, payment_amount |-> 0, account_number |-> ""]
    ELSE IF amount <= 0
    THEN [success |-> FALSE, error |-> "Payment amount must be greater than zero.",
          current_balance |-> 0, payment_amount |-> 0, account_number |-> ""]
    ELSE [success |-> TRUE, error |-> "",
          current_balance |-> wallets[wallet_name].balance, payment_amount |-> amount,
          account_number |-> DEFAULT_WALLET_ACCOUNT]

\* VirtualPayment.validate_balance_for_wallet refusing a payment of the whole
\* balance.
validate_balance_strict(wallets, wallet_name, amount) ==
    IF wallet_name \notin DOMAIN wallets
    THEN [success |-> FALSE, error |-> "Error validating virtual wallet balance",
          current_balance |-> 0, payment_amount |-> 0, account_number |-> ""]
    ELSE IF amount <= 0
    THEN [success |-> FALSE, error |-> "Payment amount must be greater than zero.",
          current_balance |-> 0, payment_amount |-> 0, account_number |-> ""]
    ELSE IF amount >= wallets[wallet_name].balance
    THEN [success |-> FALSE,
          error |-> "Insufficient Funds in virtual wallet. Current balance is "
                    \o ToString(wallets[wallet_name].balance)
                    \o ", but you are trying to transfer " \o ToString(amount),
          current_balance |-> 0, payment_amount |-> 0, account_number |-> ""]
    ELSE [success |-> TRUE, error |-> "",
          current_balance |-> wallets[wallet_name].balance, payment_amount |-> amount,
          account_number |-> IF wallets[wallet_name].account_number # ""
                             THEN wallets[wallet_name].account_number
                             ELSE DEFAULT_WALLET_ACCOUNT]

\* VirtualPayment.validate_balance_for_wallet
validate_balance_for_wallet(wallets, wallet_name, amount) ==
    IF wallet_name \notin DOMAIN wallets
    THEN [success |-> FALSE, error |-> "Error validating virtual wallet balance",
          current_balance |-> 0, payment_amount |-> 0, account_number |-> ""]
    ELSE LET wallet_doc == wallets[wallet_name]
             current_balance == wallet_doc.balance
             payment_amount == amount
         IN  IF payment_amount <= 0
             THEN [success |-> FALSE, error |-> "Payment amount must be greater than zero.",
                   current_balance |-> 0, payment_amount |-> 0, account_number |-> ""]
             ELSE IF payment_amount > current_balance
             THEN [success |-> FALSE,
                   error |-> "Insufficient Funds in virtual wallet. Current balance is "
                             \o ToString(current_balance)
                             \o ", but you are trying to transfer "
                             \o ToString(payment_amount),
                   current_balance |-> 0, payment_amount |-> 0, account_number |-> ""]
             ELSE [success |-> TRUE, error |-> "",
                   current_balance |-> current_balance, payment_amount |-> payment_amount,
                   account_number |-> IF wallet_doc.account_number # ""
                                      THEN wallet_doc.account_number
                                      ELSE DEFAULT_WALLET_ACCOUNT]

\* The validation list of _process_payment_request stopping at the first
\* failed check.
validation_errors_first_only(destination_bank_code, destination_account_number, amount) ==
    IF destination_bank_code = ""
    THEN <<"destination_bank_code is missing or could not be retrieved">>
    ELSE IF destination_account_number = ""
    THEN <<"destination_account_number is missing">>
    ELSE IF amount <= 0
    THEN <<"amount is invalid: " \o ToString(amount)>>
    ELSE IF Len(destination_account_number) # 10
    THEN <<"destination_account_number should be 10 digits: " \o destination_account_number>>
    ELSE <<>>

\* The validation list of _process_payment_request (lines 420-435).
validation_errors(destination_bank_code, destination_account_number, amount) ==
    (IF destination_bank_code = ""
     THEN <<"destination_bank_code is missing or could not be retrieved">> ELSE <<>>)
    \o (IF destination_account_number = ""
        THEN <<"destination_account_number is missing">> ELSE <<>>)
    \o (IF amount <= 0 THEN <<"amount is invalid: " \o ToString(amount)>> ELSE <<>>)
    \o (IF destination_account_number = "" \/ Len(destination_account_number) # 10
        THEN <<"destination_account_number should be 10 digits: "
               \o destination_account_number>>
        ELSE <<>>)

RECURSIVE join(_)
join(errs) ==
    IF errs = <<>> THEN ""
    ELSE IF Len(errs) = 1 THEN errs[1]
    ELSE errs[1] \o ", " \o join(Tail(errs))

\* VirtualPayment._handle_payment_response retrying on every error status.
handle_response_retry_any_error(response, attempt) ==
    IF response.status_code = 200
    THEN IF response.body.parses
         THEN [Ok("") EXCEPT !.data = response.body.data]
         ELSE Err("Invalid response format from payment gateway")
    ELSE IF attempt < MAX_RETRIES - 1
    THEN [Err("") EXCEPT !.retry = TRUE]
    ELSE Err("Payment failed with status " \o ToString(response.status_code))

\* VirtualPayment._handle_payment_response with the gateway's message ignored.
handle_response_generic_error(response, attempt) ==
    IF response.status_code = 200
    THEN IF response.body.parses
         THEN [Ok("") EXCEPT !.data = response.body.data]
         ELSE Err("Invalid response format from payment gateway")
    ELSE IF response.status_code = 502 /\ attempt < MAX_RETRIES - 1
    THEN [Err("") EXCEPT !.retry = TRUE]
    ELSE Err("Payment failed with status " \o ToString(response.status_code))

\* _handle_payment_response asking for another attempt on every 502, the
\* last attempt included.
handle_response_retry_every_502(response, attempt) ==
    IF response.status_code = 200
    THEN IF response.body.parses
         THEN [Ok("") EXCEPT !.data = response.body.data]
         ELSE Err("Invalid response format from payment gateway")
    ELSE IF response.status_code = 502
    THEN [Err("") EXCEPT !.retry = TRUE]
    ELSE LET error_message ==
                 "Payment failed with status " \o ToString(response.status_code)
         IN  IF response.body.parses /\ response.body.message # NoKey
             THEN Err(response.body.message)
             ELSE Err(error_message)

\* VirtualPayment._handle_payment_response
_handle_payment_response(response, attempt) ==
    IF response.status_code = 200
    THEN IF response.body.parses
         THEN [Ok("") EXCEPT !.data = response.body.data]
         ELSE Err("Invalid response format from payment gateway")
    ELSE IF response.status_code = 502 /\ attempt < MAX_RETRIES - 1
    THEN [Err("") EXCEPT !.retry = TRUE]
    ELSE LET error_message ==
                 "Payment failed with status " \o ToString(response.status_code)
         IN  IF response.body.parses /\ response.body.message # NoKey
             THEN Err(response.body.message)
             ELSE Err(error_message)

\* The except clauses of the retry loop asking for another attempt even
\* after the last one, so that the loop runs out (line 512).
fault_result_always_retry(kind, attempt) ==
    [Err("") EXCEPT !.retry = TRUE]

\* The except clauses of the retry loop with a timeout on the last attempt
\* taken for an accepted transfer.
fault_result_timeout_accepted(kind, attempt) ==
    IF attempt < MAX_RETRIES - 1
    THEN [Err("") EXCEPT !.retry = TRUE]
    ELSE IF kind = "Timeout" THEN Ok("")
    ELSE IF kind = "ConnectionError" THEN Err("Connection error occurred")
    ELSE Err("Network error occurred")

\* The except clauses of the retry loop of _process_payment_request
\* (lines 492-510): Timeout, ConnectionError, any other RequestException.
fault_result(kind, attempt) ==
    IF attempt < MAX_RETRIES - 1
    THEN [Err("") EXCEPT !.retry = TRUE]
    ELSE IF kind = "Timeout" THEN Err("Payment request timed out")
    ELSE IF kind = "ConnectionError" THEN Err("Connection error occurred")
    ELSE Err("Network error occurred")

\* self.RETRY_DELAYS[attempt] read one entry too far.
retry_delay_next(attempt) == RETRY_DELAYS[attempt + 2]

\* self.RETRY_DELAYS[attempt] (lines 487, 494, 501, 508); attempt counts from 0.
retry_delay(attempt) == RETRY_DELAYS[attempt + 1]

\* One pass of the loop body: the result of the attempt.
attempt_result(outcome, attempt) ==
    IF outcome.kind = "http"
    THEN _handle_payment_response(outcome, attempt)
    ELSE fault_result(outcome.kind, attempt)

\* Line 270 with the failure check dropped.
payment_result_unchecked(payment_result) == TRUE

\* Line 270 of make_virtual_payment: only a successful transfer goes on.
payment_result_ok(payment_result) == payment_result.success

\* The retry loop of _process_payment_request (lines 475-512) from the given
\* attempt on, the POSTs ending in the given outcomes: what the loop returns,
\* how many POSTs it issued and the sleeps it took.
RECURSIVE retry_loop(_, _, _)
retry_loop(outcomes, attempt, slept) ==
    LET r == attempt_result(outcomes[attempt + 1], attempt)
    IN  IF r.retry /\ attempt + 1 < MAX_RETRIES
        THEN retry_loop(outcomes, attempt + 1, Append(slept, retry_delay(attempt)))
        ELSE [payment_result |-> IF r.retry THEN Err("Max retries exceeded") ELSE r,
              posts |-> attempt + 1,
              sleeps |-> IF r.retry THEN Append(slept, retry_delay(attempt)) ELSE slept]

\* VirtualPayment._process_payment_request on a document with the given
\* fields: the bank code is taken from the document or looked up, the
\* request is validated, and only then the retry loop runs.
_process_payment_request(banks, doc, outcomes) ==
    LET fetched == _get_bank_code(banks, doc.destination_bank)
        destination_bank_code ==
            IF doc.destination_bank_code # "" THEN doc.destination_bank_code
            ELSE IF doc.destination_bank # "" /\ ~fetched.raised
            THEN fetched.bank_code
            ELSE ""
        errs == validation_errors(destination_bank_code, doc.destination_account_number,
                                  doc.amount)
    IN  IF errs # <<>>
        THEN [payment_result |-> Err("Request validation failed: " \o join(errs)),
              posts |-> 0, sleeps |-> <<>>]
        ELSE retry_loop(outcomes, 0, <<>>)

\* ------------------------------------------------- status reconciliation
\* Texts whose letters matter are sequences of characters.
LowerCase ==
    <<"a", "b", "c", "d", "e", "f", "g", "h", "i", "j", "k", "l", "m", "n", "o", "p", "q", "r", "s", "t", "u", "v", "w", "x", "y", "z">>
UpperCase ==
    <<"A", "B", "C", "D", "E", "F", "G", "H", "I", "J", "K", "L", "M", "N", "O", "P", "Q", "R", "S", "T", "U", "V", "W", "X", "Y", "Z">>

\* str.upper() leaving every character as it is.
upper_unchanged(s) == s

\* str.upper()
upper(s) ==
    [i \in DOMAIN s |->
        IF \E k \in DOMAIN LowerCase : LowerCase[k] = s[i]
        THEN UpperCase[CHOOSE k \in DOMAIN LowerCase : LowerCase[k] = s[i]]
        ELSE s[i]]

\* dict.get on a key the dict does not hold (None).
Absent == <<"<absent>">>

\* Truth value of what dict.get returned: None and '' are false.
truthy(v) == v # Absent /\ v # <<>>

\* Values the gateway sends as 'status' or 'transactionStatus'.
GatewayStatuses ==
    {<<"S", "U", "C", "C", "E", "S", "S", "F", "U", "L">>,
     <<"s", "u", "c", "c", "e", "s", "s">>,
     <<"P", "e", "n", "d", "i", "n", "g">>,
     <<"P", "R", "O", "C", "E", "S", "S", "I", "N", "G">>,
     <<"f", "a", "i", "l", "e", "d">>,
     <<"C", "a", "n", "c", "e", "l", "l", "e", "d">>,
     <<"R", "E", "V", "E", "R", "S", "E", "D">>,
     <<>>, Absent}

\* The 'data' object of a status-check response. EmptyPayload is {}.
EmptyPayload == [status |-> Absent, transactionStatus |-> Absent]
StatusPayloads ==
    {[status |-> v, transactionStatus |-> Absent] : v \in GatewayStatuses}
    \cup {[status |-> v, transactionStatus |-> <<"F", "a", "i", "l", "e", "d">>] : v \in {<<>>, Absent}}
    \cup {[status |-> <<"P", "e", "n", "d", "i", "n", "g">>, transactionStatus |-> <<"f", "a", "i", "l", "e", "d">>]}

\* status_mapping.get(api_status, 'Pending') (lines 768-778)
status_mapping(api_status) ==
    IF api_status = <<"S", "U", "C", "C", "E", "S", "S", "F", "U", "L">> THEN "Successful"
    ELSE IF api_status = <<"S", "U", "C", "C", "E", "S", "S">> THEN "Successful"
    ELSE IF api_status = <<"P", "E", "N", "D", "I", "N", "G">> THEN "Pending"
    ELSE IF api_status = <<"P", "R", "O", "C", "E", "S", "S", "I", "N", "G">> THEN "Processing"
    ELSE IF api_status = <<"F", "A", "I", "L", "E", "D">> THEN "Failed"
    ELSE IF api_status = <<"C", "A", "N", "C", "E", "L", "L", "E", "D">> THEN "Cancelled"
    ELSE "Pending"

\* Line 777: (data.get('status') or data.get('transactionStatus') or '').upper()
api_status_of(data) ==
    upper(IF truthy(data.status) THEN data.status
          ELSE IF truthy(data.transactionStatus) THEN data.transactionStatus
          ELSE <<>>)

\* Line 778
mapped_status(data) == status_mapping(api_status_of(data))

\* frappe.as_json: the JSON text of obj. Two texts are the same exactly
\* when the objects are.
as_json(obj) == [json_text_of |-> obj]


\* ------------------------------------------------------------------ state
VARIABLES
    walletDB,        \* Virtual Wallet documents: name -> [balance, role, account_number]
    pinDB,           \* Payment Pin document of each wallet
    bankDB,          \* BanksB documents: bank_name -> bank_code
    tokenSources,    \* the four places _get_bearer_token reads
    txnDB,           \* Transaction History documents, in insertion order
    pc,              \* where each request stands in make_virtual_payment
    frame,           \* the locals of each request's make_virtual_payment
                     \* (in the account verification part: its Virtual Payment document)
    result,          \* what make_virtual_payment returned to each request
    events,          \* the orchestrator states each request went through
    posts,           \* HTTP calls (requests.post, requests.get) issued by each request
    sleeps,          \* time.sleep calls made by each request, in order
    lastOutcome,     \* how each request's latest requests.post ended
    transferred,     \* total amount the gateway accepted (HTTP 200, parseable)
    saveFaults,      \* wallet saves that raised
    openingBalance   \* the wallet balance at the start

store == <<walletDB, pinDB, bankDB, tokenSources, txnDB>>
observed == <<events, posts, sleeps, lastOutcome>>
world == <<transferred, saveFaults, openingBalance>>
vars == <<walletDB, pinDB, bankDB, tokenSources, txnDB, pc, frame, result,
          events, posts, sleeps, lastOutcome, transferred, saveFaults, openingBalance>>

\* Lines 404-418: the fields of the transfer request that name the parties.
NoPostData ==
    [destinationBankCode |-> "", destinationAccountNumber |-> "", sourceAccountNumber |-> ""]

NoFrame ==
    [payment_wallet |-> NoWallet, amount |-> 0, destination_bank |-> "",
     current_balance |-> 0, payment_amount |-> 0, bank_code |-> "",
     attempt |-> 0, response_data |-> NoData, new_balance |-> 0,
     post_data |-> NoPostData]

NoTokens ==
    [LIVE_TOKEN |-> "", PAYABLE_LIVE_TOKEN |-> "", conf_live_token |-> "",
     settings_live_token |-> ""]

\* What make_virtual_payment returns.
Failure(e) == [returned |-> TRUE, success |-> FALSE, error |-> e, new_balance |-> 0]
Success(b) == [returned |-> TRUE, success |-> TRUE, error |-> "", new_balance |-> b]
NotReturned == [returned |-> FALSE, success |-> FALSE, error |-> "", new_balance |-> 0]

WalletDocs ==
    [balance : Balances, role : {"", ManagerRole}, account_number : {""}]

Init ==
    /\ \/ walletDB = <<>>
       \/ \E doc \in WalletDocs : walletDB = [w \in {"w1"} |-> doc]
    /\ \E rec \in {NoPinRecord, PlainPin, EncryptedPin, BrokenPin} :
           pinDB = [w \in {"w1"} |-> rec]
    /\ bankDB = [b \in {"GTB"} |-> "100004"]
    /\ tokenSources \in
           {NoTokens,
            [NoTokens EXCEPT !.LIVE_TOKEN = "tok-env"],
            [NoTokens EXCEPT !.settings_live_token = "tok-settings"]}
    /\ txnDB = <<>>
    /\ pc = [p \in Requests |-> "idle"]
    /\ frame = [p \in Requests |-> NoFrame]
    /\ result = [p \in Requests |-> NotReturned]
    /\ events = [p \in Requests |-> {}]
    /\ posts = [p \in Requests |-> 0]
    /\ sleeps = [p \in Requests |-> <<>>]
    /\ lastOutcome = [p \in Requests |-> NoOutcome]
    /\ transferred = 0
    /\ saveFaults = 0
    /\ openingBalance = IF "w1" \in DOMAIN walletDB THEN walletDB["w1"].balance ELSE 0

\* make_virtual_payment returns r: the locals are gone, the result stays.
Returns(p, r) ==
    /\ pc' = [pc EXCEPT ![p] = "done"]
    /\ frame' = [frame EXCEPT ![p] = NoFrame]
    /\ result' = [result EXCEPT ![p] = r]

\* VirtualPayment._update_specific_wallet_balance saving the stored balance
\* less the amount.
new_balance_from_store(wallet_doc, current_balance, payment_amount) ==
    walletDB[wallet_doc].balance - payment_amount

\* VirtualPayment._update_specific_wallet_balance: the balance it saves on
\* wallet_doc, the document loaded by validate_balance_for_wallet.
_update_specific_wallet_balance(wallet_doc, current_balance, payment_amount) ==
    current_balance - payment_amount

\* ---------------------------------------------------------------- actions
\* Lines 217-230: the request arrives and the effective wallet is resolved.
\* amount and destination_bank are fields of the Virtual Payment document.
Call(p, virtual_wallet, amount, destination_bank) ==
    /\ pc[p] = "idle"
    /\ events' = [events EXCEPT ![p] = {"Init"}]
    /\ IF virtual_wallet = "" /\ DOMAIN walletDB = {}
       THEN Returns(p, Failure("No virtual wallets found. Please create a virtual wallet first."))
       ELSE /\ pc' = [pc EXCEPT ![p] = "verify_pin"]
            /\ frame' = [frame EXCEPT ![p] =
                   [NoFrame EXCEPT
                       !.payment_wallet =
                           IF virtual_wallet # "" THEN virtual_wallet
                           ELSE CHOOSE w \in DOMAIN walletDB : TRUE,
                       !.amount = amount,
                       !.destination_bank = destination_bank]]
            /\ result' = [result EXCEPT ![p] = NotReturned]
    /\ UNCHANGED <<store, posts, sleeps, lastOutcome, world>>

\* Lines 232-241, PIN step letting a failed verification through.
VerifyPinUnchecked(p, transaction_pin, user_roles) ==
    /\ pc[p] = "verify_pin"
    /\ pc' = [pc EXCEPT ![p] = "validate_balance"]
    /\ events' = [events EXCEPT ![p] = @ \cup
           IF transaction_pin # <<>>
              /\ verify_transaction_pin(walletDB, pinDB, frame[p].payment_wallet,
                                        transaction_pin, user_roles).success
           THEN {"PinVerified"} ELSE {}]
    /\ UNCHANGED <<store, frame, result, posts, sleeps, lastOutcome, world>>

\* Lines 232-241: the PIN is required and verified first.
VerifyPin(p, transaction_pin, user_roles) ==
    /\ pc[p] = "verify_pin"
    /\ LET pin_verification ==
               verify_transaction_pin(walletDB, pinDB, frame[p].payment_wallet,
                                      transaction_pin, user_roles)
       IN  IF transaction_pin = <<>>
           THEN /\ Returns(p, Failure("Transaction PIN is required for payment authorization"))
                /\ UNCHANGED events
           ELSE IF ~pin_verification.success
           THEN /\ Returns(p, Failure(pin_verification.error))
                /\ UNCHANGED events
           ELSE /\ pc' = [pc EXCEPT ![p] = "validate_balance"]
                /\ events' = [events EXCEPT ![p] = @ \cup {"PinVerified"}]
                /\ UNCHANGED <<frame, result>>
    /\ UNCHANGED <<store, posts, sleeps, lastOutcome, world>>

\* Lines 243-252, with the amount taken off the wallet as soon as it is validated.
ValidateBalanceReserving(p) ==
    /\ pc[p] = "validate_balance"
    /\ LET validation_result ==
               validate_balance_for_wallet(walletDB, frame[p].payment_wallet, frame[p].amount)
       IN  IF ~validation_result.success
           THEN /\ Returns(p, Failure(validation_result.error))
                /\ UNCHANGED <<events, walletDB>>
           ELSE /\ pc' = [pc EXCEPT ![p] = "get_token"]
                /\ frame' = [frame EXCEPT
                       ![p].current_balance = validation_result.current_balance,
                       ![p].payment_amount = validation_result.payment_amount]
                /\ walletDB' = [walletDB EXCEPT ![frame[p].payment_wallet].balance =
                                    @ - validation_result.payment_amount]
                /\ events' = [events EXCEPT ![p] = @ \cup {"BalanceValidated"}]
                /\ UNCHANGED result
    /\ UNCHANGED <<pinDB, bankDB, tokenSources, txnDB, posts, sleeps, lastOutcome, world>>

\* Lines 243-252: the balance of the wallet is validated and the validated
\* figures are kept.
ValidateBalance(p) ==
    /\ pc[p] = "validate_balance"
    /\ LET validation_result ==
               validate_balance_for_wallet(walletDB, frame[p].payment_wallet, frame[p].amount)
       IN  IF ~validation_result.success
           THEN /\ Returns(p, Failure(validation_result.error))
                /\ UNCHANGED events
           ELSE /\ pc' = [pc EXCEPT ![p] = "get_token"]
                /\ frame' = [frame EXCEPT
                       ![p].current_balance = validation_result.current_balance,
                       ![p].payment_amount = validation_result.payment_amount]
                /\ events' = [events EXCEPT ![p] = @ \cup {"BalanceValidated"}]
                /\ UNCHANGED result
    /\ UNCHANGED <<store, posts, sleeps, lastOutcome, world>>

\* Lines 254-263 with the two steps swapped: the bank code is looked up
\* before the bearer token.
GetTokenAfterBankCode(p) ==
    /\ pc[p] = "get_token"
    /\ IF _get_bank_code(bankDB, frame[p].destination_bank).raised
       THEN /\ Returns(p, Failure("Bank code not found"))
            /\ UNCHANGED events
       ELSE IF _get_bearer_token(tokenSources) = ""
       THEN /\ Returns(p, Failure("Bearer token not found"))
            /\ UNCHANGED events
       ELSE /\ pc' = [pc EXCEPT ![p] = "get_bank_code"]
            /\ events' = [events EXCEPT ![p] = @ \cup {"TokenResolved"}]
            /\ UNCHANGED <<frame, result>>
    /\ UNCHANGED <<store, posts, sleeps, lastOutcome, world>>

\* Lines 254-257: the bearer token.
GetToken(p) ==
    /\ pc[p] = "get_token"
    /\ IF _get_bearer_token(tokenSources) = ""
       THEN /\ Returns(p, Failure("Bearer token not found"))
            /\ UNCHANGED events
       ELSE /\ pc' = [pc EXCEPT ![p] = "get_bank_code"]
            /\ events' = [events EXCEPT ![p] = @ \cup {"TokenResolved"}]
            /\ UNCHANGED <<frame, result>>
    /\ UNCHANGED <<store, posts, sleeps, lastOutcome, world>>

\* Lines 259-263: the bank code of the destination bank.
GetBankCode(p) ==
    /\ pc[p] = "get_bank_code"
    /\ LET got == _get_bank_code(bankDB, frame[p].destination_bank)
       IN  IF got.raised
           THEN /\ Returns(p, Failure("Bank code not found"))
                /\ UNCHANGED events
           ELSE /\ pc' = [pc EXCEPT ![p] = "build_request"]
                /\ frame' = [frame EXCEPT ![p].bank_code = got.bank_code]
                /\ events' = [events EXCEPT ![p] = @ \cup {"BankCodeResolved"}]
                /\ UNCHANGED result
    /\ UNCHANGED <<store, posts, sleeps, lastOutcome, world>>

\* Lines 385-473 of _process_payment_request: the request is built and
\* validated before the retry loop. destination_bank_code and
\* destination_account_number are fields of the Virtual Payment document.
\* (The second check of lines 457-473 repeats the first and never fails after it.)
BuildRequest(p, destination_bank_code_field, destination_account_number, source_account_number) ==
    /\ pc[p] = "build_request"
    /\ LET fetched == _get_bank_code(bankDB, frame[p].destination_bank)
           destination_bank_code ==
               IF destination_bank_code_field # "" THEN destination_bank_code_field
               ELSE IF frame[p].destination_bank # "" /\ ~fetched.raised
               THEN fetched.bank_code
               ELSE ""
           source_account ==
               IF source_account_number # "" THEN source_account_number
               ELSE "9000136910"
           errs == validation_errors(destination_bank_code, destination_account_number,
                                     frame[p].amount)
       IN  IF errs # <<>>
           THEN Returns(p, Failure("Request validation failed: " \o join(errs)))
           ELSE /\ pc' = [pc EXCEPT ![p] = "post"]
                /\ frame' = [frame EXCEPT
                       ![p].attempt = 0,
                       ![p].post_data =
                           [destinationBankCode |-> destination_bank_code,
                            destinationAccountNumber |-> destination_account_number,
                            sourceAccountNumber |-> source_account]]
                /\ UNCHANGED result
    /\ UNCHANGED <<store, observed, world>>

\* Lines 475-512 and 265-271: one pass of the retry loop. The POST is
\* issued and ends in outcome; the loop sleeps and goes on, or
\* _process_payment_request returns and make_virtual_payment checks it.
Post(p, outcome) ==
    /\ pc[p] = "post"
    /\ LET attempt == frame[p].attempt
           r == attempt_result(outcome, attempt)
           accepted == outcome.kind = "http" /\ outcome.status_code = 200
                       /\ outcome.body.parses
           payment_result ==
               IF r.retry THEN Err("Max retries exceeded") ELSE r
       IN  /\ posts' = [posts EXCEPT ![p] = @ + 1]
           /\ lastOutcome' = [lastOutcome EXCEPT ![p] = Seen(outcome)]
           /\ sleeps' = [sleeps EXCEPT ![p] =
                  IF r.retry THEN Append(@, retry_delay(attempt)) ELSE @]
           /\ transferred' = IF accepted THEN transferred + frame[p].amount ELSE transferred
           /\ IF r.retry /\ attempt + 1 < MAX_RETRIES
              THEN /\ frame' = [frame EXCEPT ![p].attempt = attempt + 1]
                   /\ events' = [events EXCEPT ![p] = @ \cup {"TransferRequested"}]
                   /\ UNCHANGED <<pc, result>>
              ELSE IF payment_result_ok(payment_result)
              THEN /\ pc' = [pc EXCEPT ![p] = "update_balance"]
                   /\ frame' = [frame EXCEPT ![p].response_data = payment_result.data]
                   /\ events' = [events EXCEPT ![p] = @ \cup
                          ({"TransferRequested"} \cup
                           IF accepted THEN {"TransferSucceeded"} ELSE {"TransferFailed"})]
                   /\ UNCHANGED result
              ELSE /\ Returns(p, Failure(payment_result.error))
                   /\ events' = [events EXCEPT ![p] = @ \cup
                          {"TransferRequested", "TransferFailed"}]
    /\ UNCHANGED <<store, saveFaults, openingBalance>>

\* Lines 273-276 and 371-379: the new balance is saved on the wallet.
UpdateBalance(p) ==
    /\ pc[p] = "update_balance"
    /\ LET wallet_doc == frame[p].payment_wallet
           new_balance ==
               _update_specific_wallet_balance(wallet_doc, frame[p].current_balance,
                                               frame[p].payment_amount)
       IN  /\ walletDB' = [walletDB EXCEPT ![wallet_doc].balance = new_balance]
           /\ frame' = [frame EXCEPT ![p].new_balance = new_balance]
    /\ pc' = [pc EXCEPT ![p] = "record_transaction"]
    /\ events' = [events EXCEPT ![p] = @ \cup {"BalanceCommitted"}]
    /\ UNCHANGED <<pinDB, bankDB, tokenSources, txnDB, result, posts, sleeps,
                   lastOutcome, world>>

\* Lines 376, 381-383 and 303-308: wallet_doc.save raises; the fault is
\* re-raised and make_virtual_payment turns it into a failure.
UpdateBalanceFails(p) ==
    /\ pc[p] = "update_balance"
    /\ saveFaults < MaxSaveFaults
    /\ saveFaults' = saveFaults + 1
    /\ Returns(p, Failure("Payment error: Payment processed but failed to update wallet balance"))
    /\ UNCHANGED <<store, observed, transferred, openingBalance>>

\* ---------------------------------------------------- Transaction History
\* Doc names are given in insertion order; 0 is None.
NoDoc == 0

\* frappe.db.exists finding no document at all.
exists_nothing(db, transaction_reference) == NoDoc

\* frappe.db.exists("Transaction History", {"transaction_reference": ...}):
\* the name of a document with that reference, or None.
exists_transaction(db, transaction_reference) ==
    IF \E i \in 1 .. Len(db) : db[i].transaction_reference = transaction_reference
    THEN db[CHOOSE i \in 1 .. Len(db) :
                /\ db[i].transaction_reference = transaction_reference
                /\ \A j \in 1 .. Len(db) :
                       db[j].transaction_reference = transaction_reference => i <= j].name
    ELSE NoDoc

\* TransactionHistory.validate (lines 13-19): FALSE when it throws.
validate(doc) ==
    /\ doc.transaction_reference # NoKey
    /\ doc.transaction_reference # ""
    /\ doc.amount > 0

\* The document built at lines 43-56.
new_transaction(db, transaction_data, virtual_payment_name) ==
    [name |-> Len(db) + 1,
     transaction_reference |-> transaction_data.transactionReference,
     virtual_payment |-> virtual_payment_name,
     status |-> "Pending",
     amount |-> transaction_data.amount,
     api_response |-> as_json(transaction_data)]

\* TransactionHistory.create_transaction_record called with no other call
\* under way: the Transaction History documents afterwards. validate()
\* refuses an amount that is not positive and the fault is swallowed.
create_transaction_record(db, transaction_data, virtual_payment_name) ==
    IF exists_transaction(db, transaction_data.transactionReference) # NoDoc
    THEN db
    ELSE LET transaction == new_transaction(db, transaction_data, virtual_payment_name)
         IN  IF validate(transaction) THEN Append(db, transaction) ELSE db

\* TransactionHistory.update_status leaving the stored api_response alone.
update_status_keeps_response(db, transaction_reference, status, api_response) ==
    LET transaction == exists_transaction(db, transaction_reference)
    IN  IF transaction = NoDoc THEN db
        ELSE [db EXCEPT ![transaction] = [@ EXCEPT !.status = status]]

\* update_status creating the record when the reference has none.
update_status_upsert(db, transaction_reference, status, api_response) ==
    LET transaction == exists_transaction(db, transaction_reference)
    IN  IF transaction = NoDoc
        THEN Append(db, [new_transaction(db, [transactionReference |-> transaction_reference,
                                              amount |-> 0], "")
                         EXCEPT !.status = status])
        ELSE [db EXCEPT ![transaction] =
                 [@ EXCEPT !.status = status,
                           !.api_response =
                               IF api_response # EmptyPayload
                               THEN as_json(api_response) ELSE @]]

\* TransactionHistory.update_status (lines 68-96): the documents afterwards.
\* An empty api_response is false at line 86 and is not stored.
update_status(db, transaction_reference, status, api_response) ==
    LET transaction == exists_transaction(db, transaction_reference)
    IN  IF transaction = NoDoc THEN db
        ELSE [db EXCEPT ![transaction] =
                 [@ EXCEPT !.status = status,
                           !.api_response =
                               IF api_response # EmptyPayload
                               THEN as_json(api_response) ELSE @]]

\* Lines 278-301: the transaction history record, then the success result.
RecordTransaction(p) ==
    /\ pc[p] = "record_transaction"
    /\ LET transaction_ref == frame[p].response_data.transactionReference
           after == IF transaction_ref # NoKey
                    THEN create_transaction_record(txnDB, frame[p].response_data, p)
                    ELSE txnDB
       IN  /\ txnDB' = after
           /\ events' = [events EXCEPT ![p] = @ \cup
                  IF \E i \in 1 .. Len(after) :
                         after[i].transaction_reference = transaction_ref
                  THEN {"RecordPersisted"} ELSE {}]
    /\ Returns(p, Success(frame[p].new_balance))
    /\ UNCHANGED <<walletDB, pinDB, bankDB, tokenSources, posts, sleeps, lastOutcome, world>>

\* The response has gone to the caller; the worker is free for another request.
Return(p) ==
    /\ pc[p] = "done"
    /\ pc' = [pc EXCEPT ![p] = "idle"]
    /\ result' = [result EXCEPT ![p] = NotReturned]
    /\ events' = [events EXCEPT ![p] = {}]
    /\ posts' = [posts EXCEPT ![p] = 0]
    /\ sleeps' = [sleeps EXCEPT ![p] = <<>>]
    /\ lastOutcome' = [lastOutcome EXCEPT ![p] = NoOutcome]
    /\ UNCHANGED <<store, frame, world>>

UserRoleSets == {{}, {ManagerRole}}
BankCodeFields == {"", "100004"}
AccountNumbers == {"", "81692469", "8169246969"}

\* No other request is inside make_virtual_payment.
Alone(p) == \A q \in Requests \ {p} : pc[q] = "idle"

\* One worker: requests are served one after another.
Next ==
    \E p \in Requests :
        \/ \E virtual_wallet \in {""} \cup WalletNames, amount \in Amounts,
              destination_bank \in BankNames :
               Alone(p) /\ Call(p, virtual_wallet, amount, destination_bank)
        \/ \E transaction_pin \in PinAttempts, user_roles \in UserRoleSets :
               VerifyPin(p, transaction_pin, user_roles)
        \/ ValidateBalance(p)
        \/ GetToken(p)
        \/ GetBankCode(p)
        \/ \E code \in BankCodeFields, account \in AccountNumbers :
               BuildRequest(p, code, account, "")
        \/ \E outcome \in PostOutcomes : Post(p, outcome)
        \/ UpdateBalance(p)
        \/ UpdateBalanceFails(p)
        \/ RecordTransaction(p)
        \/ Return(p)

Spec == Init /\ [][Next]_vars

\* Several workers: requests on a configured wallet overlap freely. The
\* callers are authorised and the documents well-formed; the gateway
\* accepts or rejects.
RaceOutcomes ==
    {[kind |-> "http", status_code |-> 200,
      body |-> [parses |-> TRUE, message |-> NoKey,
                data |-> [transactionReference |-> "TRX1", amount |-> 1]]],
     [kind |-> "http", status_code |-> 400, body |-> ErrorBody]}

InitRace ==
    /\ Init
    /\ "w1" \in DOMAIN walletDB
    /\ pinDB["w1"] = PlainPin
    /\ _get_bearer_token(tokenSources) # ""

NextRace ==
    \E p \in Requests :
        \/ \E amount \in 1 .. MaxAmount : Call(p, "w1", amount, "GTB")
        \/ VerifyPin(p, <<"1", "2">>, {ManagerRole})
        \/ ValidateBalance(p)
        \/ GetToken(p)
        \/ GetBankCode(p)
        \/ BuildRequest(p, "", "8169246969", "")
        \/ \E outcome \in RaceOutcomes : Post(p, outcome)
        \/ UpdateBalance(p)
        \/ UpdateBalanceFails(p)
        \/ RecordTransaction(p)
        \/ Return(p)

SpecRace == InitRace /\ [][NextRace]_vars

\* ------------------------------------------- Transaction History callers
\* The ledger on its own: create_transaction_record, update_status and
\* check_transaction_status_api called by workers.
MaxRecords == 3

LedgerRefs == Refs \cup {"TRX2"}
InternalStatuses == {"Pending", "Processing", "Successful", "Failed", "Cancelled"}
TransactionData(refs) == [transactionReference : refs, amount : {0, 1}]

\* What create_transaction_record returned: a document's name, or None.
Created(transaction_reference, doc) ==
    [returned |-> TRUE, call |-> "create_transaction_record",
     reference |-> transaction_reference, doc |-> doc]

\* The update_status call that returned, and what it returned: the
\* document's name, or None.
Updated(transaction_reference, status, api_response, doc) ==
    [returned |-> TRUE, call |-> "update_status",
     reference |-> transaction_reference, status |-> status,
     api_response |-> api_response, doc |-> doc]

\* What check_transaction_status_api returned.
StatusChecked(transaction_reference, success, error, data) ==
    [returned |-> TRUE, call |-> "check_transaction_status_api",
     reference |-> transaction_reference, success |-> success, error |-> error,
     data |-> data]

\* What requests.get of the status endpoint can end in.
StatusResponses ==
    [kind : {"http"}, status_code : {200}, data : StatusPayloads]
    \cup [kind : {"http"}, status_code : {404, 500}, data : {EmptyPayload}]
    \cup [kind : {"RequestException"}, status_code : {0}, data : {EmptyPayload}]

InitLedger ==
    /\ walletDB = <<>>
    /\ pinDB = [w \in {"w1"} |-> NoPinRecord]
    /\ bankDB = [b \in {"GTB"} |-> "100004"]
    /\ tokenSources \in {NoTokens, [NoTokens EXCEPT !.PAYABLE_LIVE_TOKEN = "tok-env"]}
    /\ txnDB = <<>>
    /\ pc = [p \in Requests |-> "idle"]
    /\ frame = [p \in Requests |-> NoFrame]
    /\ result = [p \in Requests |-> NotReturned]
    /\ events = [p \in Requests |-> {}]
    /\ posts = [p \in Requests |-> 0]
    /\ sleeps = [p \in Requests |-> <<>>]
    /\ lastOutcome = [p \in Requests |-> NoOutcome]
    /\ transferred = 0
    /\ saveFaults = 0
    /\ openingBalance = 0

\* Lines 35-40 of create_transaction_record: the existence check; a
\* document found is returned as it is.
CheckExisting(p, transaction_data, virtual_payment_name) ==
    /\ pc[p] = "idle"
    /\ LET existing == exists_transaction(txnDB, transaction_data.transactionReference)
       IN  IF existing # NoDoc
           THEN Returns(p, Created(transaction_data.transactionReference, existing))
           ELSE /\ pc' = [pc EXCEPT ![p] = "insert"]
                /\ frame' = [frame EXCEPT ![p] =
                       [transaction_data |-> transaction_data,
                        virtual_payment_name |-> virtual_payment_name]]
                /\ UNCHANGED result
    /\ UNCHANGED <<store, observed, world>>

\* Lines 43-65 of create_transaction_record: the document is built and
\* inserted; insert() runs validate(), whose fault is logged and None returned.
InsertTransaction(p) ==
    /\ pc[p] = "insert"
    /\ LET transaction ==
               new_transaction(txnDB, frame[p].transaction_data,
                               frame[p].virtual_payment_name)
       IN  IF validate(transaction)
           THEN /\ txnDB' = Append(txnDB, transaction)
                /\ Returns(p, Created(transaction.transaction_reference, transaction.name))
           ELSE /\ UNCHANGED txnDB
                /\ Returns(p, Created(transaction.transaction_reference, NoDoc))
    /\ UNCHANGED <<walletDB, pinDB, bankDB, tokenSources, observed, world>>

\* TransactionHistory.update_status called on its own.
UpdateStatus(p, transaction_reference, status, api_response) ==
    /\ pc[p] = "idle"
    /\ txnDB' = update_status(txnDB, transaction_reference, status, api_response)
    /\ Returns(p, Updated(transaction_reference, status, api_response,
                          exists_transaction(txnDB, transaction_reference)))
    /\ UNCHANGED <<walletDB, pinDB, bankDB, tokenSources, observed, world>>

\* VirtualPayment.check_transaction_status_api (lines 714-816); response is
\* how requests.get ended.
CheckTransactionStatus(p, transaction_reference, response) ==
    /\ pc[p] = "idle"
    /\ IF transaction_reference = ""
       THEN /\ Returns(p, StatusChecked(transaction_reference, FALSE,
                              "Transaction reference is required", EmptyPayload))
            /\ UNCHANGED <<txnDB, lastOutcome>>
       ELSE IF _get_bearer_token(tokenSources) = ""
       THEN /\ Returns(p, StatusChecked(transaction_reference, FALSE,
                              "Bearer token not found", EmptyPayload))
            /\ UNCHANGED <<txnDB, lastOutcome>>
       ELSE /\ lastOutcome' = [lastOutcome EXCEPT ![p] = response]
            /\ IF response.kind # "http"
               THEN /\ Returns(p, StatusChecked(transaction_reference, FALSE,
                                      "Network error occurred while checking status",
                                      EmptyPayload))
                    /\ UNCHANGED txnDB
               ELSE IF response.status_code = 200
               THEN /\ txnDB' = update_status(txnDB, transaction_reference,
                                              mapped_status(response.data), response.data)
                    /\ Returns(p, StatusChecked(transaction_reference, TRUE, "",
                                                response.data))
               ELSE IF response.status_code = 404
               THEN /\ Returns(p, StatusChecked(transaction_reference, FALSE,
                                      "Transaction not found", EmptyPayload))
                    /\ UNCHANGED txnDB
               ELSE /\ Returns(p, StatusChecked(transaction_reference, FALSE,
                                      "Status check failed with code "
                                          \o ToString(response.status_code),
                                      EmptyPayload))
                    /\ UNCHANGED txnDB
    /\ UNCHANGED <<walletDB, pinDB, bankDB, tokenSources, events, posts, sleeps, world>>

\* One worker calling the ledger, one call after another. Records are
\* created under one reference; updates and status checks also name a
\* reference that has no record.
NextLedger ==
    \E p \in {"r1"} :
        \/ \E transaction_data \in TransactionData(Refs) :
               CheckExisting(p, transaction_data, "VP-0001")
        \/ InsertTransaction(p)
        \/ \E transaction_reference \in LedgerRefs, status \in InternalStatuses,
              api_response \in StatusPayloads :
               UpdateStatus(p, transaction_reference, status, api_response)
        \/ \E transaction_reference \in {""} \cup LedgerRefs, response \in StatusResponses :
               CheckTransactionStatus(p, transaction_reference, response)
        \/ Return(p)

SpecLedger == InitLedger /\ [][NextLedger]_vars

\* Several workers creating records at once.
NextLedgerRace ==
    \E p \in Requests :
        \/ \E transaction_data \in TransactionData(LedgerRefs) :
               /\ Len(txnDB) < MaxRecords
               /\ CheckExisting(p, transaction_data, "VP-0001")
        \/ InsertTransaction(p)
        \/ Return(p)

SpecLedgerRace == InitLedger /\ [][NextLedgerRace]_vars

\* ------------------------------------------------------ PIN verification
\* verify_transaction_pin called on its own, with any wallet name, any PIN
\* and any caller.
PinAttemptsTyped ==
    PinAttempts \cup {<<"1", " ", "2">>, <<"1", "2", "3">>, <<" ", " ">>}

\* The verify_transaction_pin call that returned, and what it returned.
PinChecked(wallet_name, transaction_pin, user_roles, r) ==
    [returned |-> TRUE, call |-> "verify_transaction_pin",
     wallet_name |-> wallet_name, transaction_pin |-> transaction_pin,
     user_roles |-> user_roles, success |-> r.success, error |-> r.error,
     message |-> r.message]

\* VirtualPayment.verify_transaction_pin (lines 618-711), whole.
VerifyTransactionPin(p, wallet_name, transaction_pin, user_roles) ==
    /\ pc[p] = "idle"
    /\ Returns(p, PinChecked(wallet_name, transaction_pin, user_roles,
                             verify_transaction_pin(walletDB, pinDB, wallet_name,
                                                    transaction_pin, user_roles)))
    /\ UNCHANGED <<store, observed, world>>

NextPin ==
    \E p \in {"r1"} :
        \/ \E wallet_name \in {"w1"}, transaction_pin \in PinAttemptsTyped,
              user_roles \in UserRoleSets :
               VerifyTransactionPin(p, wallet_name, transaction_pin, user_roles)
        \/ Return(p)

\* A Payment Pin document holding neither a plaintext nor an encrypted PIN.
UnsetPin == [exists |-> TRUE, pin |-> <<>>, decrypts |-> TRUE, decrypted |-> <<>>]

InitPin ==
    /\ \/ walletDB = <<>>
       \/ \E doc \in WalletDocs : walletDB = [w \in {"w1"} |-> doc]
    /\ \E rec \in {NoPinRecord, PlainPin, EncryptedPin, BrokenPin, UnsetPin} :
           pinDB = [w \in {"w1"} |-> rec]
    /\ bankDB = [b \in {"GTB"} |-> "100004"]
    /\ tokenSources = NoTokens
    /\ txnDB = <<>>
    /\ pc = [p \in Requests |-> "idle"]
    /\ frame = [p \in Requests |-> NoFrame]
    /\ result = [p \in Requests |-> NotReturned]
    /\ events = [p \in Requests |-> {}]
    /\ posts = [p \in Requests |-> 0]
    /\ sleeps = [p \in Requests |-> <<>>]
    /\ lastOutcome = [p \in Requests |-> NoOutcome]
    /\ transferred = 0
    /\ saveFaults = 0
    /\ openingBalance = 0

SpecPin == InitPin /\ [][NextPin]_vars

\* ------------------------------------------------------- balance validation
\* validate_balance_for_wallet called on its own, for any wallet and amount.
WalletDocsWithAccount ==
    [balance : Balances, role : {"", ManagerRole}, account_number : {"", "9000000001"}]

\* Every variable but the stores, before anything was called.
Quiet ==
    /\ pc = [p \in Requests |-> "idle"]
    /\ frame = [p \in Requests |-> NoFrame]
    /\ result = [p \in Requests |-> NotReturned]
    /\ events = [p \in Requests |-> {}]
    /\ posts = [p \in Requests |-> 0]
    /\ sleeps = [p \in Requests |-> <<>>]
    /\ lastOutcome = [p \in Requests |-> NoOutcome]
    /\ transferred = 0
    /\ saveFaults = 0
    /\ openingBalance = 0

\* The validate_balance_for_wallet call that returned, and what it returned.
BalanceChecked(wallet_name, amount, r) ==
    [returned |-> TRUE, call |-> "validate_balance_for_wallet",
     wallet_name |-> wallet_name, amount |-> amount,
     success |-> r.success, error |-> r.error,
     current_balance |-> r.current_balance, payment_amount |-> r.payment_amount,
     account_number |-> r.account_number]

\* VirtualPayment.validate_balance_for_wallet (lines 310-369), whole: it
\* reads the wallet and writes nothing.
ValidateBalanceForWallet(p, wallet_name, amount) ==
    /\ pc[p] = "idle"
    /\ Returns(p, BalanceChecked(wallet_name, amount,
                                 validate_balance_for_wallet(walletDB, wallet_name, amount)))
    /\ UNCHANGED <<store, observed, world>>

InitBalance ==
    /\ \/ walletDB = <<>>
       \/ \E doc \in WalletDocsWithAccount : walletDB = [w \in {"w1"} |-> doc]
    /\ pinDB = [w \in {"w1"} |-> NoPinRecord]
    /\ bankDB = [b \in {"GTB"} |-> "100004"]
    /\ tokenSources = NoTokens
    /\ txnDB = <<>>
    /\ Quiet

NextBalance ==
    \E p \in {"r1"} :
        \/ \E wallet_name \in WalletNames, amount \in Amounts :
               ValidateBalanceForWallet(p, wallet_name, amount)
        \/ Return(p)

SpecBalance == InitBalance /\ [][NextBalance]_vars

\* ------------------------------------------------------- transfer request
\* _process_payment_request called on its own, on a Virtual Payment document
\* with any fields, the gateway answering each POST in any way.
PaymentDocs ==
    [destination_bank : {""} \cup BankNames, destination_bank_code : BankCodeFields,
     destination_account_number : AccountNumbers, amount : Amounts]

LoopOutcomes ==
    {[kind |-> "http", status_code |-> 200,
      body |-> [parses |-> TRUE, message |-> NoKey,
                data |-> [transactionReference |-> "TRX1", amount |-> 1]]],
     [kind |-> "http", status_code |-> 502, body |-> ErrorBody],
     [kind |-> "http", status_code |-> 400, body |-> ErrorBody],
     Fault("Timeout")}

\* The _process_payment_request call that returned, and what it returned.
RequestProcessed(doc, r) ==
    [returned |-> TRUE, call |-> "_process_payment_request", doc |-> doc,
     success |-> r.success, error |-> r.error, data |-> r.data]

\* VirtualPayment._process_payment_request (lines 385-528), whole. Calls
\* stop once the gateway has accepted MaxAmount in all.
ProcessPaymentRequest(p, doc, outcomes) ==
    /\ pc[p] = "idle"
    /\ transferred < MaxAmount
    /\ LET r == _process_payment_request(bankDB, doc, outcomes)
       IN  /\ Returns(p, RequestProcessed(doc, r.payment_result))
           /\ posts' = [posts EXCEPT ![p] = r.posts]
           /\ sleeps' = [sleeps EXCEPT ![p] = r.sleeps]
           /\ lastOutcome' = [lastOutcome EXCEPT ![p] =
                  IF r.posts = 0 THEN NoOutcome ELSE Seen(outcomes[r.posts])]
           /\ transferred' = IF r.payment_result.success
                             THEN transferred + doc.amount ELSE transferred
    /\ UNCHANGED <<store, events, saveFaults, openingBalance>>

InitRequest ==
    /\ walletDB = <<>>
    /\ pinDB = [w \in {"w1"} |-> NoPinRecord]
    /\ bankDB = [b \in {"GTB"} |-> "100004"]
    /\ tokenSources = [NoTokens EXCEPT !.LIVE_TOKEN = "tok-env"]
    /\ txnDB = <<>>
    /\ Quiet

NextRequest ==
    \E p \in {"r1"} :
        \/ \E doc \in PaymentDocs, outcomes \in [1 .. MAX_RETRIES -> LoopOutcomes] :
               ProcessPaymentRequest(p, doc, outcomes)
        \/ Return(p)

SpecRequest == InitRequest /\ [][NextRequest]_vars

\* ------------------------------------------------------- credential lookup
\* _get_bearer_token called on its own, each of the four sources unset, set
\* to a value of its own, or set to a value another source may hold too.
TokenSources ==
    [LIVE_TOKEN : {"", "tok-env", "tok-shared"},
     PAYABLE_LIVE_TOKEN : {"", "tok-env-payable", "tok-shared"},
     conf_live_token : {"", "tok-conf", "tok-shared"},
     settings_live_token : {"", "tok-settings", "tok-shared"}]

\* The _get_bearer_token call that returned, and the token it returned
\* ("" is None).
TokenResolved(token) ==
    [returned |-> TRUE, call |-> "_get_bearer_token", token |-> token]

\* VirtualPayment._get_bearer_token (lines 35-58), whole.
GetBearerToken(p) ==
    /\ pc[p] = "idle"
    /\ Returns(p, TokenResolved(_get_bearer_token(tokenSources)))
    /\ UNCHANGED <<store, observed, world>>

InitToken ==
    /\ walletDB = <<>>
    /\ pinDB = [w \in {"w1"} |-> NoPinRecord]
    /\ bankDB = [b \in {"GTB"} |-> "100004"]
    /\ tokenSources \in TokenSources
    /\ txnDB = <<>>
    /\ Quiet

NextToken ==
    \E p \in {"r1"} :
        \/ GetBearerToken(p)
        \/ Return(p)

SpecToken == InitToken /\ [][NextToken]_vars

\* ----------------------------------------------------------- bank directory
\* BanksB documents saved on their own and by the directory sync. In this
\* part bankDB maps the name of each BanksB document (its bank name, by which
\* _get_bank_code loads it) to its bank_code, a sequence of characters.
MaxListing == 2

BankDocNames == {"Bank A", "Bank B"}
BankCodeTexts == {<<>>, <<"1", "0">>, <<"x", "1">>, <<"X", "1">>, <<" ", "X", "1">>}

\* BanksB.validate (lines 9-24) on the document of that name: the message
\* it throws, "" when it passes. The duplicate lookup compares the code as
\* it stands on the document.
BanksB_validate(banks, name, bank_code) ==
    IF name = "" THEN "Bank name is required"
    ELSE IF bank_code = <<>> THEN "Bank code is required"
    ELSE IF \E other \in DOMAIN banks \ {name} : banks[other] = bank_code
    THEN "Bank with code already exists"
    ELSE ""

\* BanksB.before_save (lines 26-32): the code as it is stored.
BanksB_before_save(bank_code) == upper(strip(bank_code))

\* The directory with the document of that name written.
written(banks, name, bank_code) ==
    [n \in DOMAIN banks \cup {name} |-> IF n = name THEN bank_code ELSE banks[n]]

\* Document.save of a BanksB document (new or existing): validate, then
\* before_save, then the write.
save_bank(banks, name, bank_code) ==
    LET thrown == BanksB_validate(banks, name, bank_code)
    IN  IF thrown # ""
        THEN [error |-> thrown, banks |-> banks]
        ELSE [error |-> "", banks |-> written(banks, name, BanksB_before_save(bank_code))]

\* doc.insert(ignore_if_duplicate=True) of utils.py lines 226-231: the hooks
\* run as on save; a document of that name already stored is left as it is.
insert_bank(banks, name, bank_code) ==
    LET thrown == BanksB_validate(banks, name, bank_code)
    IN  IF thrown # "" \/ name \in DOMAIN banks
        THEN banks
        ELSE written(banks, name, BanksB_before_save(bank_code))

\* The loop body of fetch_and_save_banks writing every listed bank without
\* looking anything up.
save_listed_bank_unchecked(banks, bank) ==
    IF bank.bankName # "" /\ bank.bankCode # <<>>
    THEN written(banks, bank.bankName, BanksB_before_save(bank.bankCode))
    ELSE banks

\* The loop body of fetch_and_save_banks (utils.py lines 212-241): one
\* listed bank is inserted unless its code is found or its data is invalid;
\* a failed insert is logged and the loop goes on.
save_listed_bank(banks, bank) ==
    IF bank.bankName # "" /\ bank.bankCode # <<>>
    THEN IF \E n \in DOMAIN banks : banks[n] = bank.bankCode
         THEN banks
         ELSE insert_bank(banks, bank.bankName, bank.bankCode)
    ELSE banks

\* The loop of fetch_and_save_banks over the listing.
RECURSIVE save_listed_banks(_, _)
save_listed_banks(banks, listing) ==
    IF listing = <<>> THEN banks
    ELSE save_listed_banks(save_listed_bank(banks, Head(listing)), Tail(listing))

ListedBanks == [bankName : BankDocNames, bankCode : BankCodeTexts]
Listings == UNION {[1 .. n -> ListedBanks] : n \in 0 .. MaxListing}

\* What the GET of the bank listing can end in: a fault, or a response
\* whose body fails to parse or carries a listing under 'data'.
NoListing == <<>>
BankResponses ==
    {[kind |-> "RequestException", status_code |-> 0, parses |-> FALSE, data |-> NoListing],
     [kind |-> "http", status_code |-> 502, parses |-> FALSE, data |-> NoListing],
     [kind |-> "http", status_code |-> 200, parses |-> FALSE, data |-> NoListing]}
    \cup [kind : {"http"}, status_code : {200}, parses : {TRUE}, data : Listings]

\* The BanksB save that returned, and how it ended.
BankSaved(name, bank_code, r) ==
    [returned |-> TRUE, call |-> "BanksB.save", bank_name |-> name,
     bank_code |-> bank_code, success |-> r.error = "", error |-> r.error]

\* The fetch_and_save_banks call that returned, the response it got and
\* what it returned.
BanksFetched(bearer_token, response, status, message) ==
    [returned |-> TRUE, call |-> "fetch_and_save_banks", bearer_token |-> bearer_token,
     response |-> response, status |-> status, message |-> message,
     data_count |-> IF status = "ok" THEN Len(response.data) ELSE 0]

\* A BanksB document is saved with the given code (banksb.py lines 9-32).
SaveBank(p, name, bank_code) ==
    /\ pc[p] = "idle"
    /\ LET r == save_bank(bankDB, name, bank_code)
       IN  /\ bankDB' = r.banks
           /\ Returns(p, BankSaved(name, bank_code, r))
    /\ UNCHANGED <<walletDB, pinDB, tokenSources, txnDB, observed, world>>

\* fetch_and_save_banks (utils.py lines 181-263), whole. bearer_token is the
\* TOKEN entry of the .env file the function loads at each call.
FetchAndSaveBanks(p, bearer_token, response) ==
    /\ pc[p] = "idle"
    /\ IF bearer_token = ""
       THEN /\ Returns(p, BanksFetched(bearer_token, response, "error",
                                       "Bearer token not found in .env file"))
            /\ UNCHANGED bankDB
       ELSE IF response.kind # "http"
       THEN /\ Returns(p, BanksFetched(bearer_token, response, "error", response.kind))
            /\ UNCHANGED bankDB
       ELSE IF response.status_code # 200
       THEN /\ Returns(p, BanksFetched(bearer_token, response, "error",
                                       "Failed to fetch data from API"))
            /\ UNCHANGED bankDB
       ELSE IF ~response.parses
       THEN /\ Returns(p, BanksFetched(bearer_token, response, "error",
                                       "Failed to parse API response"))
            /\ UNCHANGED bankDB
       ELSE /\ bankDB' = save_listed_banks(bankDB, response.data)
            /\ Returns(p, BanksFetched(bearer_token, response, "ok",
                                       "Banks successfully retrieved and saved"))
    /\ UNCHANGED <<walletDB, pinDB, tokenSources, txnDB, observed, world>>

InitBanks ==
    /\ walletDB = <<>>
    /\ pinDB = [w \in {"w1"} |-> NoPinRecord]
    /\ bankDB = <<>>
    /\ tokenSources = NoTokens
    /\ txnDB = <<>>
    /\ Quiet

NextBanks ==
    \E p \in {"r1"} :
        \/ \E name \in BankDocNames, bank_code \in BankCodeTexts :
               SaveBank(p, name, bank_code)
        \/ \E bearer_token \in {"", "tok-env"}, response \in BankResponses :
               FetchAndSaveBanks(p, bearer_token, response)
        \/ Return(p)

SpecBanks == InitBanks /\ [][NextBanks]_vars

\* ----------------------------------------------------- account verification
\* process_bank_verification called on a Virtual Payment document. The
\* document's fields are kept in frame; texts the code strips are sequences
\* of characters.
Null == <<"<null>">>
AccountNames == {Absent, Null, <<>>, <<" ">>, <<"J", "D", " ">>}

\* What the one requests.get can end in: a fault, or a response whose body
\* fails to parse (response.json() raises a requests JSONDecodeError, or a
\* plain ValueError with older requests) or parses to an object. A body
\* without 'data' reads like one whose data has no accountName.
ResolveBodies ==
    [parses : {FALSE}, decode_error : {"RequestException", "ValueError"},
     accountName : {Absent}]
    \cup [parses : {TRUE}, decode_error : {""}, accountName : AccountNames]
ResolveResponses ==
    [kind : {"http"}, status_code : {200, 404, 502}, body : ResolveBodies]
    \cup {[kind |-> "RequestException", status_code |-> 0,
           body |-> [parses |-> FALSE, decode_error |-> "", accountName |-> Absent]]}

\* What process_bank_verification returns; raised marks a fault that
\* _verify_bank_account does not catch, account_name is what db_set stored.
Verified(account_name) ==
    [success |-> TRUE, error |-> "", raised |-> FALSE, account_name |-> account_name]
Unverified(e) ==
    [success |-> FALSE, error |-> e, raised |-> FALSE, account_name |-> <<>>]
Raised(e) ==
    [success |-> FALSE, error |-> e, raised |-> TRUE, account_name |-> <<>>]

\* VirtualPayment._verify_bank_account accepting a blank account name.
_verify_bank_account_unstripped(response) ==
    IF response.kind # "http"
    THEN Unverified("Network error occurred during verification")
    ELSE IF response.status_code # 200
    THEN Unverified("Verification failed with status code "
                    \o ToString(response.status_code))
    ELSE IF ~response.body.parses
    THEN IF response.body.decode_error = "RequestException"
         THEN Unverified("Network error occurred during verification")
         ELSE Raised("Verification error")
    ELSE IF response.body.accountName = Null
    THEN Raised("Verification error")
    ELSE LET account_name == IF response.body.accountName = Absent
                             THEN <<>> ELSE response.body.accountName
         IN  IF account_name = <<>>
             THEN Unverified("Unable to retrieve account name")
             ELSE Verified(account_name)

\* VirtualPayment._verify_bank_account (lines 143-201) once its single
\* requests.get ended in response.
_verify_bank_account(response) ==
    IF response.kind # "http"
    THEN Unverified("Network error occurred during verification")
    ELSE IF response.status_code # 200
    THEN Unverified("Verification failed with status code "
                    \o ToString(response.status_code))
    ELSE IF ~response.body.parses
    THEN IF response.body.decode_error = "RequestException"
         THEN Unverified("Network error occurred during verification")
         ELSE Raised("Verification error")
    ELSE IF response.body.accountName = Null
    THEN Raised("Verification error")
    ELSE LET account_name == IF response.body.accountName = Absent
                             THEN <<>> ELSE strip(response.body.accountName)
         IN  IF account_name = <<>>
             THEN Unverified("Unable to retrieve account name")
             ELSE Verified(account_name)

\* VirtualPayment.process_bank_verification without the check of the
\* account number's length.
process_bank_verification_any_length(tokens, banks, doc, response) ==
    IF _get_bearer_token(tokens) = ""
    THEN [result |-> Unverified("Bearer token not found. Please contact administrator."),
          gets |-> 0]
    ELSE IF _get_bank_code(banks, doc.destination_bank).raised
    THEN [result |-> Unverified("Unable to retrieve bank information"), gets |-> 0]
    ELSE [result |-> _verify_bank_account(response), gets |-> 1]

\* VirtualPayment.process_bank_verification (lines 88-141): what it returns
\* and how many GETs it issued. (The hasattr check of lines 108-113 never
\* fails on a document, whose fields are always attributes.)
process_bank_verification(tokens, banks, doc, response) ==
    IF _get_bearer_token(tokens) = ""
    THEN [result |-> Unverified("Bearer token not found. Please contact administrator."),
          gets |-> 0]
    ELSE IF _get_bank_code(banks, doc.destination_bank).raised
    THEN [result |-> Unverified("Unable to retrieve bank information"), gets |-> 0]
    ELSE IF Len(doc.destination_account_number) < 10
    THEN [result |-> Unverified("Invalid account number format"), gets |-> 0]
    ELSE [result |-> _verify_bank_account(response), gets |-> 1]

\* The process_bank_verification call that returned, the response its GET
\* (if any) ended in, and what it returned.
BankVerified(response, r) ==
    [returned |-> TRUE, call |-> "process_bank_verification", response |-> response,
     success |-> r.success, error |-> r.error, account_name |-> r.account_name]

\* The stored name left as it was when the verification starts.
clear_account_name_skipped(doc) == doc

\* Lines 97-98 of process_bank_verification: the stored account name is
\* cleared before anything is checked.
clear_account_name(doc) == [doc EXCEPT !.destination_account_name = <<>>]

\* VirtualPayment.process_bank_verification, whole: the stored account name
\* is cleared first (line 97) and set again on success (line 171).
ProcessBankVerification(p, response) ==
    /\ pc[p] = "idle"
    /\ LET doc == clear_account_name(frame[p])
           r == process_bank_verification(tokenSources, bankDB, frame[p], response)
       IN  /\ pc' = [pc EXCEPT ![p] = "done"]
           /\ frame' = [frame EXCEPT ![p] =
                  IF r.result.success
                  THEN [doc EXCEPT !.destination_account_name = r.result.account_name]
                  ELSE doc]
           /\ result' = [result EXCEPT ![p] = BankVerified(response, r.result)]
           /\ posts' = [posts EXCEPT ![p] = r.gets]
    /\ UNCHANGED <<store, events, sleeps, lastOutcome, world>>

VerificationDocs ==
    [destination_bank : BankNames,
     destination_account_number : AccountNumbers \cup {"81692469691"},
     destination_account_name : {<<>>, <<"O", "L", "D">>}]

InitVerify ==
    /\ walletDB = <<>>
    /\ pinDB = [w \in {"w1"} |-> NoPinRecord]
    /\ bankDB = [b \in {"GTB"} |-> "100004"]
    /\ tokenSources \in {NoTokens, [NoTokens EXCEPT !.PAYABLE_LIVE_TOKEN = "tok-env"]}
    /\ txnDB = <<>>
    /\ pc = [p \in Requests |-> "idle"]
    /\ \E doc \in VerificationDocs : frame = [p \in Requests |-> doc]
    /\ result = [p \in Requests |-> NotReturned]
    /\ events = [p \in Requests |-> {}]
    /\ posts = [p \in Requests |-> 0]
    /\ sleeps = [p \in Requests |-> <<>>]
    /\ lastOutcome = [p \in Requests |-> NoOutcome]
    /\ transferred = 0
    /\ saveFaults = 0
    /\ openingBalance = 0

NextVerify ==
    \E p \in {"r1"} :
        \/ \E response \in ResolveResponses : ProcessBankVerification(p, response)
        \/ Return(p)

SpecVerify == InitVerify /\ [][NextVerify]_vars

\* ------------------------------------------------------------------ faults
\* make_virtual_payment with an unexpected fault (an exception none of the
\* specific handlers names) raised at any of its steps.
FaultySteps ==
    {"verify_pin", "validate_balance", "get_token", "get_bank_code",
     "build_request", "post", "record_transaction"}

\* A fault at the given step with no handler around make_virtual_payment's
\* body: where the step has no handler of its own, nothing is returned.
fault_escapes(step) ==
    CASE step = "verify_pin" -> Failure("PIN verification failed: fault")
      [] step = "validate_balance" -> Failure("Error validating virtual wallet balance: fault")
      [] step = "get_bank_code" -> Failure("Bank code not found")
      [] OTHER -> NotReturned

\* What make_virtual_payment returns when the given step raises: the PIN
\* check (lines 706-711), the balance check (365-369) and the bank lookup
\* (260-263) have handlers of their own, every other fault reaches the
\* handler of lines 303-308.
fault_caught(step) ==
    CASE step = "verify_pin" -> Failure("PIN verification failed: fault")
      [] step = "validate_balance" -> Failure("Error validating virtual wallet balance: fault")
      [] step = "get_bank_code" -> Failure("Bank code not found")
      [] OTHER -> Failure("Payment error: fault")

\* Line 223: the lookup of the first wallet raises.
CallFaults(p) ==
    /\ pc[p] = "idle"
    /\ events' = [events EXCEPT ![p] = {"Init"}]
    /\ Returns(p, fault_caught("idle"))
    /\ UNCHANGED <<store, posts, sleeps, lastOutcome, world>>

\* The step the request stands at raises: a PIN or wallet read, the token
\* or bank lookup, the building of the request, the transfer call, or the
\* db_set of line 283 before the record is created.
StepFaults(p) ==
    /\ pc[p] \in FaultySteps
    /\ Returns(p, fault_caught(pc[p]))
    /\ UNCHANGED <<store, observed, world>>

\* transaction_history.py lines 62-64: create_transaction_record raises
\* inside, logs and returns None; make_virtual_payment goes on to success.
RecordTransactionFails(p) ==
    /\ pc[p] = "record_transaction"
    /\ frame[p].response_data.transactionReference # NoKey
    /\ Returns(p, Success(frame[p].new_balance))
    /\ UNCHANGED <<store, observed, world>>

NextFaults ==
    \E p \in {"r1"} :
        \/ \E virtual_wallet \in {"", "w1"}, amount \in Amounts,
              destination_bank \in BankNames :
               Call(p, virtual_wallet, amount, destination_bank)
        \/ \E transaction_pin \in PinAttempts, user_roles \in UserRoleSets :
               VerifyPin(p, transaction_pin, user_roles)
        \/ ValidateBalance(p)
        \/ GetToken(p)
        \/ GetBankCode(p)
        \/ \E code \in BankCodeFields, account \in AccountNumbers :
               BuildRequest(p, code, account, "")
        \/ \E outcome \in PostOutcomes : Post(p, outcome)
        \/ UpdateBalance(p)
        \/ UpdateBalanceFails(p)
        \/ RecordTransaction(p)
        \/ CallFaults(p)
        \/ StepFaults(p)
        \/ RecordTransactionFails(p)
        \/ Return(p)

SpecFaults == Init /\ [][NextFaults]_vars

\* --------------------------------------------------------- wallet deletion
\* A Virtual Wallet is deleted: on_trash runs, then the document is gone.
\* What the POST to the admin system can end in: a request fault (timeout,
\* connection error), another fault, or a response; a 2xx body fails to
\* parse, or parses with or without success set.
AdminBodies == {"not json", "success", "no success"}
AdminResponses ==
    [kind : {"http"}, status_code : {200, 201, 500}, body : AdminBodies]
    \cup [kind : {"RequestException", "Exception"}, status_code : {0}, body : {"not json"}]

\* VirtualWallet.unregister_from_client_wallet letting a fault of the POST
\* out.
unregister_propagating(response) ==
    IF response.kind # "http"
    THEN [raised |-> TRUE, logged |-> ""]
    ELSE IF response.status_code \in {200, 201}
    THEN IF response.body = "not json" THEN [raised |-> FALSE, logged |-> "Del Parse Error"]
         ELSE IF response.body = "success" THEN [raised |-> FALSE, logged |-> "Del Success"]
         ELSE [raised |-> FALSE, logged |-> "Del Warning"]
    ELSE [raised |-> FALSE, logged |-> "Del API Error"]

\* VirtualWallet.unregister_from_client_wallet (lines 161-222): what it
\* logs; every fault is caught.
unregister_from_client_wallet(response) ==
    IF response.kind = "RequestException" THEN [raised |-> FALSE, logged |-> "Del Req Error"]
    ELSE IF response.kind # "http" THEN [raised |-> FALSE, logged |-> "Del Error"]
    ELSE IF response.status_code \in {200, 201}
    THEN IF response.body = "not json" THEN [raised |-> FALSE, logged |-> "Del Parse Error"]
         ELSE IF response.body = "success" THEN [raised |-> FALSE, logged |-> "Del Success"]
         ELSE [raised |-> FALSE, logged |-> "Del Warning"]
    ELSE [raised |-> FALSE, logged |-> "Del API Error"]

\* VirtualWallet.delete_associated_pin (lines 136-159): the Payment Pin
\* records of the wallet are looked up and deleted.
delete_associated_pin(pins, wallet_name) ==
    [pins |-> [w \in DOMAIN pins |-> IF w = wallet_name THEN NoPinRecord ELSE pins[w]],
     deleted |-> IF pins[wallet_name].exists THEN 1 ELSE 0]

\* VirtualWallet.on_trash (lines 125-134): the notification, then the PIN;
\* a fault of either is logged and the deletion goes on.
on_trash(pins, wallet_name, response) ==
    LET notified == unregister_from_client_wallet(response)
    IN  IF notified.raised
        THEN [pins |-> pins, deleted |-> 0, logged |-> "Wallet Del Error", raised |-> FALSE]
        ELSE [pins |-> delete_associated_pin(pins, wallet_name).pins,
              deleted |-> delete_associated_pin(pins, wallet_name).deleted,
              logged |-> notified.logged, raised |-> FALSE]

\* The deletion that went through: the wallet, the notification's outcome,
\* what was logged and how many PIN records were deleted.
Trashed(wallet_name, response, r) ==
    [returned |-> TRUE, call |-> "on_trash", wallet_name |-> wallet_name,
     response |-> response, logged |-> r.logged, deleted |-> r.deleted,
     raised |-> r.raised]

\* frappe.delete_doc on a Virtual Wallet: on_trash, then the document is
\* removed (it would stay if on_trash raised).
DeleteWallet(p, wallet_name, response) ==
    /\ pc[p] = "idle"
    /\ wallet_name \in DOMAIN walletDB
    /\ LET r == on_trash(pinDB, wallet_name, response)
       IN  /\ pinDB' = r.pins
           /\ Returns(p, Trashed(wallet_name, response, r))
    /\ walletDB' = IF on_trash(pinDB, wallet_name, response).raised
                   THEN walletDB
                   ELSE [w \in DOMAIN walletDB \ {wallet_name} |-> walletDB[w]]
    /\ posts' = [posts EXCEPT ![p] = 1]
    /\ UNCHANGED <<bankDB, tokenSources, txnDB, events, sleeps, lastOutcome, world>>

InitTrash ==
    /\ \E names \in SUBSET WalletNames :
           /\ walletDB \in [names -> WalletDocs]
           /\ pinDB \in [WalletNames -> {NoPinRecord, PlainPin, EncryptedPin}]
           /\ \A w \in WalletNames : pinDB[w].exists => w \in names
    /\ bankDB = [b \in {"GTB"} |-> "100004"]
    /\ tokenSources = NoTokens
    /\ txnDB = <<>>
    /\ Quiet

NextTrash ==
    \E p \in {"r1"} :
        \/ \E wallet_name \in WalletNames, response \in AdminResponses :
               DeleteWallet(p, wallet_name, response)
        \/ Return(p)

SpecTrash == InitTrash /\ [][NextTrash]_vars

\* --------------------------------------------------------- wallet creation
\* create_wallet on a Virtual Wallet document without a wallet id yet. In
\* walletDB are the wallets create_wallet has saved.
WalletNameFields == {""} \cup WalletNames
BvnFields == {"", "123", "12345678901"}

\* What the POST reserving the account can end in.
ReservationResponses ==
    [kind : {"http"}, status_code : {201}, body : {"not json", "no data", "data"}]
    \cup [kind : {"http"}, status_code : {400}, body : {"not json"}]
    \cup [kind : {"Timeout", "ConnectionError", "Exception"}, status_code : {0},
          body : {"not json"}]

\* VirtualWallet.validate_wallet_data (lines 35-61) on the names and BVNs
\* above.
validate_wallet_data(wallet_name, bvn) ==
    (IF wallet_name = "" THEN <<"Wallet name is required">> ELSE <<>>)
    \o (IF bvn = "" THEN <<"BVN is required">>
        ELSE IF Len(bvn) # 11 THEN <<"BVN must be exactly 11 digits">>
        ELSE <<>>)

\* VirtualWallet.register_with_admin_system letting a fault of the POST out.
register_propagating(response) ==
    IF response.kind # "http"
    THEN [success |-> FALSE, message |-> "", raised |-> TRUE]
    ELSE IF response.status_code \in {200, 201}
    THEN IF response.body = "not json"
         THEN [success |-> FALSE, message |-> "Failed to parse admin response",
               raised |-> FALSE]
         ELSE IF response.body = "success" \/ response.status_code = 200
         THEN [success |-> TRUE, message |-> "Registered with admin successfully",
               raised |-> FALSE]
         ELSE [success |-> FALSE, message |-> "Admin registration failed",
               raised |-> FALSE]
    ELSE [success |-> FALSE, message |-> "Admin API returned status "
                                          \o ToString(response.status_code),
          raised |-> FALSE]

\* VirtualWallet.register_with_admin_system (lines 223-343): every fault
\* is caught and reported in the returned dict.
register_with_admin_system(response) ==
    IF response.kind = "RequestException"
    THEN [success |-> FALSE, message |-> "Admin API request timed out", raised |-> FALSE]
    ELSE IF response.kind # "http"
    THEN [success |-> FALSE, message |-> "Unexpected admin registration error",
          raised |-> FALSE]
    ELSE IF response.status_code \in {200, 201}
    THEN IF response.body = "not json"
         THEN [success |-> FALSE, message |-> "Failed to parse admin response",
               raised |-> FALSE]
         ELSE IF response.body = "success" \/ response.status_code = 200
         THEN [success |-> TRUE, message |-> "Registered with admin successfully",
               raised |-> FALSE]
         ELSE [success |-> FALSE, message |-> "Admin registration failed",
               raised |-> FALSE]
    ELSE [success |-> FALSE, message |-> "Admin API returned status "
                                          \o ToString(response.status_code),
          raised |-> FALSE]

\* What create_wallet returns: an info (with a warning or not), or an error.
WalletInfo(info, warning) == [info |-> info, warning |-> warning, error |-> ""]
NotCreated(e) == [info |-> "", warning |-> "", error |-> e]

\* VirtualWallet.create_wallet (lines 345-482): what it returns and whether
\* it saved the wallet.
create_wallet(has_wallet_id, token, wallet_name, bvn, reservation, admin) ==
    IF validate_wallet_data(wallet_name, bvn) # <<>>
    THEN [saved |-> FALSE, returns |-> NotCreated(join(validate_wallet_data(wallet_name, bvn)))]
    ELSE IF has_wallet_id
    THEN [saved |-> FALSE, returns |-> NotCreated("Wallet already exists for this record")]
    ELSE IF token = ""
    THEN [saved |-> FALSE, returns |-> NotCreated("Bearer token not found in configuration")]
    ELSE IF reservation.kind = "Timeout"
    THEN [saved |-> FALSE, returns |-> NotCreated("Request timeout - please try again")]
    ELSE IF reservation.kind = "ConnectionError"
    THEN [saved |-> FALSE,
          returns |-> NotCreated("Connection error - check your internet connection")]
    ELSE IF reservation.kind # "http"
    THEN [saved |-> FALSE, returns |-> NotCreated("System error")]
    ELSE IF reservation.status_code # 201
    THEN [saved |-> FALSE,
          returns |-> NotCreated("API request failed with status "
                                 \o ToString(reservation.status_code))]
    ELSE IF reservation.body = "not json"
    THEN [saved |-> FALSE, returns |-> NotCreated("Invalid response from API")]
    ELSE IF reservation.body = "no data"
    THEN [saved |-> FALSE, returns |-> NotCreated("No data received from the API")]
    ELSE LET admin_result == register_with_admin_system(admin)
         IN  IF admin_result.raised
             THEN [saved |-> TRUE, returns |-> NotCreated("System error")]
             ELSE IF admin_result.success
             THEN [saved |-> TRUE,
                   returns |-> WalletInfo("Virtual wallet created and registered successfully!",
                                        "")]
             ELSE [saved |-> TRUE,
                   returns |-> WalletInfo("Virtual wallet created successfully!",
                                        "Admin registration issue: "
                                        \o admin_result.message)]

\* The create_wallet call that returned, the two responses it got and what
\* it returned.
WalletCreated(wallet_name, bvn, reservation, admin, r) ==
    [returned |-> TRUE, call |-> "create_wallet", wallet_name |-> wallet_name,
     bvn |-> bvn, reservation |-> reservation, admin |-> admin,
     info |-> r.returns.info, warning |-> r.returns.warning, error |-> r.returns.error]

\* VirtualWallet.create_wallet, whole: the wallet is saved (line 452)
\* before the admin system is told.
CreateWallet(p, wallet_name, bvn, reservation, admin) ==
    /\ pc[p] = "idle"
    /\ LET r == create_wallet(wallet_name \in DOMAIN walletDB, tokenSources.LIVE_TOKEN,
                              wallet_name, bvn, reservation, admin)
       IN  /\ walletDB' =
                  IF r.saved
                  THEN [w \in DOMAIN walletDB \cup {wallet_name} |->
                           IF w = wallet_name
                           THEN [balance |-> 0, role |-> "", account_number |-> "9000000001"]
                           ELSE walletDB[w]]
                  ELSE walletDB
           /\ Returns(p, WalletCreated(wallet_name, bvn, reservation, admin, r))
    /\ UNCHANGED <<pinDB, bankDB, tokenSources, txnDB, observed, world>>

InitWallet ==
    /\ \E names \in SUBSET WalletNames :
           /\ walletDB \in [names -> [balance : {0}, role : {""},
                                      account_number : {"9000000001"}]]
           /\ pinDB \in [WalletNames -> {NoPinRecord, PlainPin}]
           /\ \A w \in WalletNames : pinDB[w].exists => w \in names
    /\ bankDB = [b \in {"GTB"} |-> "100004"]
    /\ tokenSources \in {NoTokens, [NoTokens EXCEPT !.LIVE_TOKEN = "tok-env"]}
    /\ txnDB = <<>>
    /\ Quiet

NextWallet ==
    \E p \in {"r1"} :
        \/ \E wallet_name \in WalletNameFields, bvn \in BvnFields,
              reservation \in ReservationResponses, admin \in AdminResponses :
               CreateWallet(p, wallet_name, bvn, reservation, admin)
        \/ \E wallet_name \in WalletNames, response \in AdminResponses :
               DeleteWallet(p, wallet_name, response)
        \/ Return(p)

SpecWallet == InitWallet /\ [][NextWallet]_vars

\* ------------------------------------------------------------ transfer parties
\* The payment of a wallet that may hold an account number of its own, on a
\* Virtual Payment document whose destination_bank_code and
\* source_account_number fields are filled in or left empty.
DestinationBankCodeFields == {"", "100004", "000013"}
SourceAccountFields == {"", "9000000001", "9000000002"}

InitPayload ==
    /\ \E doc \in WalletDocsWithAccount : walletDB = [w \in {"w1"} |-> doc]
    /\ pinDB = [w \in {"w1"} |-> PlainPin]
    /\ bankDB = [b \in {"GTB"} |-> "100004"]
    /\ tokenSources = [NoTokens EXCEPT !.LIVE_TOKEN = "tok-env"]
    /\ txnDB = <<>>
    /\ Quiet

NextPayload ==
    \E p \in {"r1"} :
        \/ \E amount \in 1 .. MaxAmount : Call(p, "w1", amount, "GTB")
        \/ \E user_roles \in UserRoleSets : VerifyPin(p, <<"1", "2">>, user_roles)
        \/ ValidateBalance(p)
        \/ GetToken(p)
        \/ GetBankCode(p)
        \/ \E code \in DestinationBankCodeFields, source \in SourceAccountFields :
               BuildRequest(p, code, "8169246969", source)
        \/ \E outcome \in PostOutcomes : Post(p, outcome)
        \/ UpdateBalance(p)
        \/ UpdateBalanceFails(p)
        \/ RecordTransaction(p)
        \/ Return(p)

SpecPayload == InitPayload /\ [][NextPayload]_vars

\* -------------------------------------------------------------- PIN change
\* What str(pin_doc.pin) gives for a record whose pin field holds nothing:
\* the empty text, or the text of None.
BlankPinTexts == {<<>>, <<"N", "o", "n", "e">>}
NewPins == {<<"1", "2">>, <<"3", "4">>}

\* virtual_wallet.verify_and_update_pin (lines 515-546): the Payment Pin
\* record of the wallet is looked up, its pin field is compared with
\* current_pin as text, and on a match the field is set to new_pin and saved.
verify_and_update_pin(pins, wallet_name, current_pin, new_pin, blank) ==
    IF ~pins[wallet_name].exists
    THEN [pins |-> pins, success |-> FALSE, error |-> "No PIN found for this wallet"]
    ELSE LET pin_doc == pins[wallet_name]
             stored == IF pin_doc.pin = <<>> THEN blank ELSE pin_doc.pin
         IN  IF stored # current_pin
             THEN [pins |-> pins, success |-> FALSE, error |-> "Current PIN is incorrect"]
             ELSE [pins |-> [pins EXCEPT ![wallet_name].pin = new_pin],
                   success |-> TRUE, error |-> ""]

\* The verify_and_update_pin call that returned, and what it returned.
PinUpdated(wallet_name, current_pin, new_pin, r) ==
    [returned |-> TRUE, call |-> "verify_and_update_pin",
     wallet_name |-> wallet_name, transaction_pin |-> current_pin,
     new_pin |-> new_pin, user_roles |-> {}, success |-> r.success,
     error |-> r.error, message |-> ""]

VerifyAndUpdatePin(p, wallet_name, current_pin, new_pin, blank) ==
    /\ pc[p] = "idle"
    /\ LET r == verify_and_update_pin(pinDB, wallet_name, current_pin, new_pin, blank)
       IN  /\ pinDB' = r.pins
           /\ Returns(p, PinUpdated(wallet_name, current_pin, new_pin, r))
    /\ UNCHANGED <<walletDB, bankDB, tokenSources, txnDB, observed, world>>

NextPinChange ==
    \E p \in {"r1"} :
        \/ \E wallet_name \in {"w1"}, transaction_pin \in PinAttemptsTyped,
              user_roles \in UserRoleSets :
               VerifyTransactionPin(p, wallet_name, transaction_pin, user_roles)
        \/ \E wallet_name \in {"w1"}, current_pin \in PinAttemptsTyped,
              new_pin \in NewPins, blank \in BlankPinTexts :
               VerifyAndUpdatePin(p, wallet_name, current_pin, new_pin, blank)
        \/ Return(p)

SpecPinChange == InitPin /\ [][NextPinChange]_vars

\* ---------------------------------------------------------- legacy payment
\* utils.make_payment on the single Wallet Balance document, which the
\* document store keeps under its own name.
WalletBalance == "Wallet Balance"

\* The amount argument: a number, a text that is not a number, or nothing.
LegacyAmounts ==
    [kind : {"number"}, value : Amounts]
    \cup {[kind |-> "text", value |-> 0], [kind |-> "missing", value |-> 0]}

\* Python truth of the amount argument (line 93).
amount_given(amount) ==
    \/ amount.kind = "text"
    \/ amount.kind = "number" /\ amount.value # 0

LegacyInfo(info) == [error |-> "", info |-> info]
LegacyError(e) == [error |-> e, info |-> ""]

\* utils.make_payment (lines 83-178): the parameters are checked, the amount
\* is converted, the token is read, the balance is compared with the amount,
\* the transfer is posted and, on HTTP 200 with data, the balance is saved
\* less the amount; a save that raises is logged and the payment still
\* reported as made.
make_payment(wallet_balance, token, amount, others_given, outcome, save_raises) ==
    IF ~(amount_given(amount) /\ others_given)
    THEN [wallet_balance |-> wallet_balance, posted |-> FALSE,
          returns |-> LegacyError("Missing required parameters")]
    ELSE IF amount.kind # "number"
    THEN [wallet_balance |-> wallet_balance, posted |-> FALSE,
          returns |-> LegacyError("Invalid amount format")]
    ELSE IF token = ""
    THEN [wallet_balance |-> wallet_balance, posted |-> FALSE,
          returns |-> LegacyError("Bearer token not found in .env file")]
    ELSE IF amount.value > wallet_balance
    THEN [wallet_balance |-> wallet_balance, posted |-> FALSE,
          returns |-> LegacyError("Insufficient Funds")]
    ELSE IF outcome.kind # "http"
    THEN [wallet_balance |-> wallet_balance, posted |-> TRUE,
          returns |-> LegacyError("Request failed while making payment")]
    ELSE IF outcome.status_code # 200
    THEN [wallet_balance |-> wallet_balance, posted |-> TRUE,
          returns |-> LegacyError("Failed to POST data. Status Code: "
                                  \o ToString(outcome.status_code))]
    ELSE IF ~outcome.body.parses
    THEN [wallet_balance |-> wallet_balance, posted |-> TRUE,
          returns |-> LegacyError("Request failed while making payment")]
    ELSE IF outcome.body.data = NoData
    THEN [wallet_balance |-> wallet_balance, posted |-> TRUE,
          returns |-> LegacyError("No data received from the API.")]
    ELSE [wallet_balance |-> IF save_raises THEN wallet_balance
                             ELSE wallet_balance - amount.value,
          posted |-> TRUE,
          returns |-> LegacyInfo("Payment made successfully")]

\* The make_payment call that returned, and what it returned.
LegacyPaid(amount, outcome, r) ==
    [returned |-> TRUE, call |-> "make_payment", amount |-> amount,
     posted |-> r.posted, response |-> outcome, error |-> r.returns.error,
     info |-> r.returns.info]

\* One call of utils.make_payment, whole. The balance is kept within the
\* range the model follows.
MakePayment(p, amount, others_given, outcome, save_raises) ==
    /\ pc[p] = "idle"
    /\ walletDB[WalletBalance].wallet_balance <= MaxBalance
    /\ save_raises => saveFaults < MaxSaveFaults
    /\ LET r == make_payment(walletDB[WalletBalance].wallet_balance,
                             tokenSources.LIVE_TOKEN, amount, others_given, outcome,
                             save_raises)
       IN  /\ walletDB' = [walletDB EXCEPT ![WalletBalance].wallet_balance = r.wallet_balance]
           /\ posts' = [posts EXCEPT ![p] = IF r.posted THEN 1 ELSE 0]
           /\ lastOutcome' = [lastOutcome EXCEPT ![p] =
                  IF r.posted THEN Seen(outcome) ELSE @]
           /\ saveFaults' = IF save_raises /\ r.returns.info # "" THEN saveFaults + 1
                            ELSE saveFaults
           /\ Returns(p, LegacyPaid(amount, outcome, r))
    /\ UNCHANGED <<pinDB, bankDB, tokenSources, txnDB, events, sleeps, transferred,
                   openingBalance>>

InitLegacy ==
    /\ \E wallet_balance \in Balances :
           /\ walletDB = [w \in {WalletBalance} |-> [wallet_balance |-> wallet_balance]]
           /\ openingBalance = wallet_balance
    /\ pinDB = [w \in {"w1"} |-> NoPinRecord]
    /\ bankDB = [b \in {"GTB"} |-> "100004"]
    /\ tokenSources \in {NoTokens, [NoTokens EXCEPT !.LIVE_TOKEN = "tok-env"]}
    /\ txnDB = <<>>
    /\ pc = [p \in Requests |-> "idle"]
    /\ frame = [p \in Requests |-> NoFrame]
    /\ result = [p \in Requests |-> NotReturned]
    /\ events = [p \in Requests |-> {}]
    /\ posts = [p \in Requests |-> 0]
    /\ sleeps = [p \in Requests |-> <<>>]
    /\ lastOutcome = [p \in Requests |-> NoOutcome]
    /\ transferred = 0
    /\ saveFaults = 0

NextLegacy ==
    \E p \in {"r1"} :
        \/ \E amount \in LegacyAmounts, others_given \in BOOLEAN,
              outcome \in PostOutcomes, save_raises \in BOOLEAN :
               MakePayment(p, amount, others_given, outcome, save_raises)
        \/ Return(p)

SpecLegacy == InitLegacy /\ [][NextLegacy]_vars

\* ------------------------------------------------------------- properties
Accepted(seen) == seen.kind = "http" /\ seen.status_code = 200 /\ seen.parses

\* C1: the stored wallet balance changes only in the balance update of a
\* request whose own transfer call returned HTTP 200 with a parseable body
\* (its TransferSucceeded event), and a request that has committed a
\* balance has that event behind it.
C1_DebitOnlyAfterTransferSucceeded ==
    [][/\ \A p \in Requests :
              "BalanceCommitted" \in events'[p] => "TransferSucceeded" \in events'[p]
       /\ \A w \in DOMAIN walletDB :
              walletDB'[w].balance # walletDB[w].balance =>
                  \E p \in Requests :
                      /\ pc[p] = "update_balance"
                      /\ pc'[p] = "record_transaction"
                      /\ frame[p].payment_wallet = w
                      /\ "TransferSucceeded" \in events[p]
                      /\ posts[p] >= 1
                      /\ Accepted(lastOutcome[p])]_vars

C1_Witness ==
    \E p \in Requests :
        /\ "BalanceCommitted" \in events[p]
        /\ "TransferSucceeded" \in events[p]
        /\ walletDB["w1"].balance < openingBalance

\* C2: a request that ends without having committed a balance update has
\* left the stored wallets as they were at each of its steps: whatever the
\* reason it aborted for, the balance after equals the balance before.
C2_AbortLeavesBalance ==
    [][\A p \in Requests :
           (pc'[p] # pc[p] /\ "BalanceCommitted" \notin events'[p]) =>
               walletDB' = walletDB]_vars

C2_Witness ==
    \E p \in Requests :
        /\ pc[p] = "done"
        /\ ~result[p].success
        /\ posts[p] = MAX_RETRIES
        /\ "BalanceCommitted" \notin events[p]
        /\ DOMAIN walletDB # {}
        /\ walletDB["w1"].balance = openingBalance

\* C3: with requests served one after another, every wallet balance that
\* starts non-negative is non-negative in every state.
C3_BalanceNonNegative ==
    \A w \in DOMAIN walletDB : walletDB[w].balance >= 0

C3_Witness ==
    \E p \in Requests :
        /\ pc[p] = "record_transaction"
        /\ frame[p].payment_amount = 1
        /\ walletDB["w1"].balance = 0
        /\ openingBalance = 2
        /\ saveFaults = 0

\* Two requests have both saved a balance computed from the same validated
\* balance, which their amounts together exceed.
RaceCommitted(p, q) ==
    /\ p # q
    /\ pc[p] = "record_transaction"
    /\ pc[q] = "record_transaction"
    /\ frame[p].payment_wallet = frame[q].payment_wallet
    /\ frame[p].current_balance = frame[q].current_balance
    /\ frame[p].payment_amount + frame[q].payment_amount > frame[p].current_balance

\* C4 as stated: once two requests that both passed validation against the
\* same balance have both committed, the committed balance is negative.
C4_RaceDrivesBalanceNegative ==
    \A p, q \in Requests :
        RaceCommitted(p, q) => walletDB[frame[p].payment_wallet].balance < 0

\* C4 amended: two requests can both pass validation before either
\* commits; each then saves its own validated balance less its own amount,
\* so the committed balance is the result of one of the two debits alone
\* (the other is overwritten) and no committed balance is negative.
C4_RaceOverwritesNotNegative ==
    /\ \A w \in DOMAIN walletDB : walletDB[w].balance >= 0
    /\ \A p, q \in Requests :
           RaceCommitted(p, q) =>
               walletDB[frame[p].payment_wallet].balance \in
                   {frame[p].current_balance - frame[p].payment_amount,
                    frame[q].current_balance - frame[q].payment_amount}

C4_Witness ==
    \E p, q \in Requests :
        /\ RaceCommitted(p, q)
        /\ transferred > openingBalance
        /\ saveFaults = 0

\* C5: when every save succeeded and no accepted transfer still awaits its
\* balance update, the stored balance is the opening balance less the sum
\* of the amounts of all accepted transfers.
C5_NoLostUpdate ==
    (saveFaults = 0 /\ \A p \in Requests : pc[p] # "update_balance") =>
        walletDB["w1"].balance = openingBalance - transferred

\* C6: the orchestrator states are entered in order, and a transfer POST
\* has been issued only by a request that verified the PIN, validated the
\* debit, resolved the token and resolved the bank code.
C6_PostOnlyAfterAllChecks ==
    \A p \in Requests :
        /\ "BalanceValidated" \in events[p] => "PinVerified" \in events[p]
        /\ "BankCodeResolved" \in events[p] => "BalanceValidated" \in events[p]
        /\ "TransferRequested" \in events[p] => "BankCodeResolved" \in events[p]
        /\ posts[p] > 0 =>
               {"PinVerified", "BalanceValidated", "TokenResolved",
                "BankCodeResolved", "TransferRequested"} \subseteq events[p]
        /\ pc[p] = "post" =>
               {"PinVerified", "BalanceValidated", "TokenResolved",
                "BankCodeResolved"} \subseteq events[p]

C6_Witness ==
    \E p \in Requests :
        /\ posts[p] > 0
        /\ {"PinVerified", "BalanceValidated", "TokenResolved",
            "BankCodeResolved", "TransferRequested"} \subseteq events[p]

\* C7: one run of _process_payment_request issues at most 3 POST calls.
C7_AtMostThreePosts ==
    \A p \in Requests : posts[p] <= 3

C7_Witness ==
    \E p \in Requests : posts[p] = 3 /\ pc[p] = "done"

RetryableAsClaimed(seen) ==
    \/ seen.kind \in {"Timeout", "ConnectionError"}
    \/ seen.kind = "http" /\ seen.status_code = 502

RetryableInCode(seen) ==
    \/ seen.kind \in {"Timeout", "ConnectionError", "RequestException"}
    \/ seen.kind = "http" /\ seen.status_code = 502

\* C8 as stated: a further POST follows only a timeout, a connection fault
\* or an HTTP 502.
C8_RetryOnlyOnTimeoutConnection502 ==
    [][\A p \in Requests :
           (posts'[p] = posts[p] + 1 /\ posts[p] > 0) =>
               RetryableAsClaimed(lastOutcome[p])]_vars

\* C8 amended: a further POST follows only a timeout, a connection fault,
\* any other request fault (requests.RequestException) or an HTTP 502; an
\* attempt that ends in anything else (HTTP 200, any other status) ends
\* the loop.
C8_RetryOnlyOnRequestFaultOr502 ==
    [][\A p \in Requests :
           /\ (posts'[p] = posts[p] + 1 /\ posts[p] > 0) =>
                  RetryableInCode(lastOutcome[p])
           /\ (posts'[p] = posts[p] + 1 /\ ~RetryableInCode(lastOutcome'[p])) =>
                  pc'[p] # "post"]_vars

C8_Witness ==
    \E p \in Requests :
        /\ pc[p] = "post"
        /\ posts[p] = 1
        /\ lastOutcome[p].kind = "RequestException"

\* C9: once an attempt has ended in a status other than 200 and 502 the
\* request has returned: a failure whose error is the gateway's message
\* when the body carries one and the generic status message otherwise,
\* with no balance committed.
C9_TerminalGatewayError ==
    \A p \in Requests :
        (lastOutcome[p].kind = "http" /\ lastOutcome[p].status_code \notin {200, 502}) =>
            /\ pc[p] = "done"
            /\ result[p].returned
            /\ ~result[p].success
            /\ result[p].error =
                   IF lastOutcome[p].parses /\ lastOutcome[p].message # NoKey
                   THEN lastOutcome[p].message
                   ELSE "Payment failed with status " \o ToString(lastOutcome[p].status_code)
            /\ "BalanceCommitted" \notin events[p]

C9_Witness ==
    \E p \in Requests :
        /\ lastOutcome[p].kind = "http"
        /\ lastOutcome[p].status_code = 400
        /\ result[p].error = GatewayMessage
        /\ posts[p] = 1

\* C10: when attempt n is accepted (HTTP 200, parseable body) the retry
\* loop reports success and the sleeps made so far are the first n - 1
\* entries of 2, 5, 10, in that order.
C10_BackoffSchedule ==
    \A p \in Requests :
        Accepted(lastOutcome[p]) =>
            /\ posts[p] \in 1 .. 3
            /\ sleeps[p] = SubSeq(<<2, 5, 10>>, 1, posts[p] - 1)
            /\ "TransferSucceeded" \in events[p]
            /\ pc[p] \in {"update_balance", "record_transaction", "done"}
            /\ (pc[p] = "done" /\ "BalanceCommitted" \in events[p]) => result[p].success

C10_Witness ==
    \E p \in Requests :
        /\ Accepted(lastOutcome[p])
        /\ posts[p] = 3
        /\ sleeps[p] = <<2, 5>>
        /\ result[p].success

\* C11 as stated: after three attempts that all ended in a timeout, a
\* connection fault or an HTTP 502, the error is 'Max retries exceeded'.
C11_MaxRetriesExceeded ==
    \A p \in Requests :
        (posts[p] = 3 /\ RetryableAsClaimed(lastOutcome[p])) =>
            /\ result[p].returned
            /\ result[p].error = "Max retries exceeded"

\* C11 amended: after three attempts that all ended in a timeout, a
\* connection fault or an HTTP 502 the request has failed with the error of
\* the third attempt: 'Payment request timed out' after a timeout,
\* 'Connection error occurred' after a connection fault, and after a 502
\* the gateway's message or else 'Payment failed with status 502'. No
\* request ever returns 'Max retries exceeded'.
C11_LastAttemptErrorReturned ==
    \A p \in Requests :
        /\ (posts[p] = 3 /\ RetryableAsClaimed(lastOutcome[p])) =>
               /\ pc[p] = "done"
               /\ result[p].returned
               /\ ~result[p].success
               /\ result[p].error =
                      IF lastOutcome[p].kind = "Timeout"
                      THEN "Payment request timed out"
                      ELSE IF lastOutcome[p].kind = "ConnectionError"
                      THEN "Connection error occurred"
                      ELSE IF lastOutcome[p].parses /\ lastOutcome[p].message # NoKey
                      THEN lastOutcome[p].message
                      ELSE "Payment failed with status 502"
        /\ result[p].error # "Max retries exceeded"

C11_Witness ==
    \E p \in Requests :
        /\ posts[p] = 3
        /\ sleeps[p] = <<2, 5>>
        /\ lastOutcome[p].kind = "http"
        /\ lastOutcome[p].status_code = 502
        /\ result[p].error = "Payment failed with status 502"

\* C12: when the third attempt of a request ends in a timeout, the request
\* returns at once with success = false and a timeout (or max-retries)
\* error, and that step changes neither a wallet balance nor the
\* Transaction History; the request has committed no balance.
C12_FinalTimeoutFails ==
    [][\A p \in Requests :
           (posts'[p] = 3 /\ lastOutcome'[p].kind = "Timeout") =>
               /\ pc'[p] = "done"
               /\ result'[p].returned
               /\ ~result'[p].success
               /\ result'[p].error \in {"Payment request timed out", "Max retries exceeded"}
               /\ walletDB' = walletDB
               /\ txnDB' = txnDB
               /\ "BalanceCommitted" \notin events'[p]
               /\ "RecordPersisted" \notin events'[p]]_vars

C12_Witness ==
    \E p \in Requests :
        /\ posts[p] = 3
        /\ lastOutcome[p].kind = "Timeout"
        /\ result[p].returned
        /\ ~result[p].success
        /\ result[p].error = "Payment request timed out"
        /\ "w1" \in DOMAIN walletDB
        /\ walletDB["w1"].balance = openingBalance
        /\ txnDB = <<>>

\* Positions of the documents carrying a reference.
WithReference(db, transaction_reference) ==
    {i \in 1 .. Len(db) : db[i].transaction_reference = transaction_reference}

\* This step is the return of worker p's create_transaction_record call.
CreateReturns(p) ==
    /\ pc[p] \in {"idle", "insert"}
    /\ pc'[p] = "done"
    /\ result'[p].call = "create_transaction_record"

\* C13 as stated: every create_transaction_record call, a first one or a
\* repeated one, returns the one record that carries the reference, and a
\* call that finds the record leaves the documents as they are.
C13_AlwaysExactlyOneRecord ==
    [][\A p \in Requests :
           CreateReturns(p) =>
               LET ref == result'[p].reference
                   before == WithReference(txnDB, ref)
                   after == WithReference(txnDB', ref)
               IN  /\ Cardinality(after) = 1
                   /\ \E i \in after : result'[p].doc = txnDB'[i].name
                   /\ before # {} => txnDB' = txnDB]_vars

\* C13 amended: create_transaction_record called for a reference that has
\* a record returns that record and changes no document; called for a
\* reference that has none with a positive amount it stores one Pending
\* record and returns it, so that calling twice gives the same record and
\* exactly one record with the reference; with an amount that is missing
\* or not positive it stores nothing and returns None, each time.
C13_IdempotentCreate ==
    [][\A p \in Requests :
           CreateReturns(p) =>
               LET ref == result'[p].reference
                   before == WithReference(txnDB, ref)
                   after == WithReference(txnDB', ref)
               IN  IF before # {}
                   THEN /\ txnDB' = txnDB
                        /\ Cardinality(before) = 1
                        /\ \E i \in before : result'[p].doc = txnDB[i].name
                   ELSE IF frame[p].transaction_data.amount > 0
                   THEN /\ Cardinality(after) = 1
                        /\ Len(txnDB') = Len(txnDB) + 1
                        /\ SubSeq(txnDB', 1, Len(txnDB)) = txnDB
                        /\ \E i \in after :
                               /\ result'[p].doc = txnDB'[i].name
                               /\ txnDB'[i].status = "Pending"
                   ELSE /\ txnDB' = txnDB
                        /\ result'[p].doc = NoDoc]_vars

\* A repeated call: the record returned has been updated since it was stored.
C13_Witness ==
    \E p \in Requests :
        /\ pc[p] = "done"
        /\ result[p].returned
        /\ result[p].call = "create_transaction_record"
        /\ Len(txnDB) = 1
        /\ result[p].doc = txnDB[1].name
        /\ txnDB[1].status = "Successful"

\* C14: in every reachable state, also when create_transaction_record
\* calls for one reference interleave between the existence check and the
\* insert, at most one Transaction History record carries a reference.
C14_OneRecordPerReference ==
    \A ref \in LedgerRefs : Cardinality(WithReference(txnDB, ref)) <= 1

\* This step is the return of worker p's check_transaction_status_api call.
StatusCheckReturns(p) ==
    /\ pc[p] = "idle"
    /\ pc'[p] = "done"
    /\ result'[p].call = "check_transaction_status_api"

\* Pending -> Processing -> {Successful, Failed, Cancelled}
StatusRank(status) ==
    IF status = "Pending" THEN 0 ELSE IF status = "Processing" THEN 1 ELSE 2

\* C15: a record is stored with status Pending, and a reconciliation by
\* check_transaction_status_api leaves a record's status as it is or moves
\* it forward along Pending -> Processing -> {Successful, Failed,
\* Cancelled}, never back.
C15_StatusNeverRegresses ==
    [][\A p \in Requests :
           /\ CreateReturns(p) =>
                  \A i \in (1 .. Len(txnDB')) \ (1 .. Len(txnDB)) :
                      txnDB'[i].status = "Pending"
           /\ StatusCheckReturns(p) =>
                  /\ Len(txnDB') = Len(txnDB)
                  /\ \A i \in 1 .. Len(txnDB) :
                         \/ txnDB'[i].status = txnDB[i].status
                         \/ StatusRank(txnDB'[i].status) > StatusRank(txnDB[i].status)]_vars

\* This step is the return of worker p's own update_status call.
UpdateReturns(p) ==
    /\ pc[p] = "idle"
    /\ pc'[p] = "done"
    /\ result'[p].call = "update_status"

\* C16 as stated: update_status on an existing record leaves status =
\* new_status and api_response = the serialisation of the payload passed,
\* whatever the prior status and the payload, the empty payload included.
C16_OverwritesStatusAndPayload ==
    [][\A p \in Requests :
           UpdateReturns(p) =>
               \A i \in WithReference(txnDB, result'[p].reference) :
                   /\ txnDB'[i].status = result'[p].status
                   /\ txnDB'[i].api_response = as_json(result'[p].api_response)]_vars

\* C16 amended: update_status on an existing record leaves status =
\* new_status whatever the prior status; api_response becomes the
\* serialisation of the payload passed when that payload is not empty, and
\* stays as it was when the payload is empty. Nothing else changes, and
\* without a record of that reference nothing changes at all.
C16_OverwritesStatusAndNonEmptyPayload ==
    [][\A p \in Requests :
           UpdateReturns(p) =>
               /\ Len(txnDB') = Len(txnDB)
               /\ \A i \in 1 .. Len(txnDB) :
                      IF i \in WithReference(txnDB, result'[p].reference)
                      THEN /\ txnDB'[i].status = result'[p].status
                           /\ txnDB'[i].api_response =
                                  IF result'[p].api_response = EmptyPayload
                                  THEN txnDB[i].api_response
                                  ELSE as_json(result'[p].api_response)
                           /\ [txnDB'[i] EXCEPT !.status = "", !.api_response = ""]
                                  = [txnDB[i] EXCEPT !.status = "", !.api_response = ""]
                      ELSE txnDB'[i] = txnDB[i]]_vars

\* A record has been set to Failed together with a payload.
C16_Witness ==
    \E p \in Requests :
        /\ pc[p] = "done"
        /\ result[p].returned
        /\ result[p].call = "update_status"
        /\ result[p].doc # NoDoc
        /\ result[p].status = "Failed"
        /\ result[p].api_response # EmptyPayload
        /\ Len(txnDB) = 1
        /\ txnDB[1].status = "Failed"
        /\ txnDB[1].api_response = as_json(result[p].api_response)

\* The gateway status as C17 reads it: 'status', or else 'transactionStatus'.
ClaimedGatewayStatus(data) ==
    IF data.status \notin {Absent, <<>>} THEN data.status ELSE data.transactionStatus

\* The internal status C17 gives for the values the gateway sends here.
ClaimedStatus(v) ==
    IF v \in {<<"S", "U", "C", "C", "E", "S", "S", "F", "U", "L">>,
              <<"s", "u", "c", "c", "e", "s", "s">>}
    THEN "Successful"
    ELSE IF v = <<"P", "e", "n", "d", "i", "n", "g">> THEN "Pending"
    ELSE IF v = <<"P", "R", "O", "C", "E", "S", "S", "I", "N", "G">> THEN "Processing"
    ELSE IF v \in {<<"f", "a", "i", "l", "e", "d">>, <<"F", "a", "i", "l", "e", "d">>}
    THEN "Failed"
    ELSE IF v = <<"C", "a", "n", "c", "e", "l", "l", "e", "d">> THEN "Cancelled"
    ELSE "Pending"

\* C17: a status check answered with HTTP 200 sets the status of the record
\* of that reference to the internal status of the gateway status, read
\* from 'status' or else 'transactionStatus' without regard to case
\* (SUCCESSFUL/SUCCESS -> Successful, PENDING -> Pending, PROCESSING ->
\* Processing, FAILED -> Failed, CANCELLED -> Cancelled, anything else or
\* nothing -> Pending), and returns success with the data; a status check
\* that ends otherwise changes no record.
C17_StatusMapping ==
    [][\A p \in Requests :
           StatusCheckReturns(p) =>
               IF result'[p].success
               THEN /\ lastOutcome'[p].kind = "http"
                    /\ lastOutcome'[p].status_code = 200
                    /\ result'[p].data = lastOutcome'[p].data
                    /\ Len(txnDB') = Len(txnDB)
                    /\ \A i \in 1 .. Len(txnDB) :
                           IF i \in WithReference(txnDB, result'[p].reference)
                           THEN txnDB'[i].status =
                                    ClaimedStatus(ClaimedGatewayStatus(lastOutcome'[p].data))
                           ELSE txnDB'[i] = txnDB[i]
               ELSE /\ txnDB' = txnDB
                    /\ ~(lastOutcome'[p].kind = "http" /\ lastOutcome'[p].status_code = 200
                         /\ result'[p].reference # ""
                         /\ _get_bearer_token(tokenSources) # "")]_vars

\* A record has become Successful on the gateway status 'success' in
\* lower case.
C17_Witness ==
    \E p \in Requests :
        /\ pc[p] = "done"
        /\ result[p].returned
        /\ result[p].call = "check_transaction_status_api"
        /\ result[p].success
        /\ Len(txnDB) = 1
        /\ txnDB[1].transaction_reference = result[p].reference
        /\ result[p].data.status = <<"s", "u", "c", "c", "e", "s", "s">>
        /\ txnDB[1].status = "Successful"

\* C18: a request that make_virtual_payment answered with success = true
\* has committed the balance and left a Transaction History record keyed
\* by the transaction reference of its transfer.
C18_SuccessHasRecord ==
    \A p \in Requests :
        (result[p].returned /\ result[p].success) =>
            {"BalanceCommitted", "RecordPersisted"} \subseteq events[p]

\* Worker p's verify_transaction_pin call on an existing wallet has returned.
PinCallReturned(p) ==
    /\ result[p].returned
    /\ result[p].call = "verify_transaction_pin"
    /\ result[p].wallet_name \in DOMAIN walletDB

\* The caller of p's call lacks the role the wallet requires.
LacksRole(p) ==
    /\ walletDB[result[p].wallet_name].role # ""
    /\ walletDB[result[p].wallet_name].role \notin result[p].user_roles

\* C19: verify_transaction_pin checks role, then PIN record, then secret:
\* a caller lacking the wallet's role is refused for want of permission
\* whatever the PIN and the PIN record; otherwise a wallet without PIN
\* record gets 'No PIN found'; otherwise the attempt is compared with the
\* plaintext PIN if there is one, else with the decrypted PIN, a failed
\* decryption giving 'Unable to verify PIN'.
C19_RoleThenRecordThenSecret ==
    \A p \in Requests :
        PinCallReturned(p) =>
            LET pin_doc == pinDB[result[p].wallet_name]
                compared == {"", "Incorrect PIN. Please try again."}
            IN  IF LacksRole(p)
                THEN /\ ~result[p].success
                     /\ result[p].error = "You don't have permission to access this wallet"
                ELSE IF ~pin_doc.exists
                THEN /\ ~result[p].success
                     /\ result[p].error = "No PIN found for this wallet. Please set up a PIN first."
                ELSE IF pin_doc.pin # <<>>
                THEN /\ result[p].error \in compared
                     /\ result[p].success <=> (result[p].error = "")
                ELSE IF ~pin_doc.decrypts
                THEN /\ ~result[p].success
                     /\ result[p].error =
                            "Unable to verify PIN. Please contact administrator or reset your PIN."
                ELSE IF pin_doc.decrypted = <<>>
                THEN /\ ~result[p].success
                     /\ result[p].error = "PIN not properly configured. Please reset your PIN."
                ELSE /\ result[p].error \in compared
                     /\ result[p].success <=> (result[p].error = "")

\* A caller without the role is refused on a wallet that has no PIN record.
C19_Witness ==
    \E p \in Requests :
        /\ PinCallReturned(p)
        /\ LacksRole(p)
        /\ ~pinDB[result[p].wallet_name].exists
        /\ result[p].transaction_pin = <<"1", "2">>
        /\ result[p].error = "You don't have permission to access this wallet"

\* s without the spaces before its first and after its last other character.
Trimmed(s) ==
    LET kept == {i \in 1 .. Len(s) : s[i] # " "}
    IN  IF kept = {} THEN <<>>
        ELSE SubSeq(s, CHOOSE i \in kept : \A j \in kept : i <= j,
                       CHOOSE i \in kept : \A j \in kept : j <= i)

\* C20: where the attempt is compared with the stored secret (the caller
\* has the role, the PIN record exists and holds a plaintext PIN, or else
\* an encrypted one that decrypts), the call verifies exactly when attempt
\* and secret are equal after trimming both, and answers 'Incorrect PIN'
\* otherwise.
C20_TrimmedExactMatch ==
    \A p \in Requests :
        (/\ PinCallReturned(p)
         /\ ~LacksRole(p)
         /\ pinDB[result[p].wallet_name].exists
         /\ \/ pinDB[result[p].wallet_name].pin # <<>>
            \/ /\ pinDB[result[p].wallet_name].decrypts
               /\ pinDB[result[p].wallet_name].decrypted # <<>>) =>
            LET pin_doc == pinDB[result[p].wallet_name]
                stored == IF pin_doc.pin # <<>> THEN pin_doc.pin ELSE pin_doc.decrypted
            IN  /\ result[p].success <=> (Trimmed(result[p].transaction_pin) = Trimmed(stored))
                /\ ~result[p].success => result[p].error = "Incorrect PIN. Please try again."

\* The stored PIN "12" is verified by the padded attempt " 12 ".
C20_Witness ==
    \E p \in Requests :
        /\ PinCallReturned(p)
        /\ pinDB[result[p].wallet_name] = PlainPin
        /\ result[p].transaction_pin = <<" ", "1", "2", " ">>
        /\ result[p].success

\* The validate_balance_for_wallet calls that returned.
BalanceCallReturned(p) ==
    result[p].returned /\ result[p].call = "validate_balance_for_wallet"

\* C21: validate_balance_for_wallet on an existing wallet answers "Payment
\* amount must be greater than zero." when the amount is zero or negative
\* (whatever the balance), an insufficient-funds error citing the current
\* balance and the requested amount when the amount exceeds the balance, and
\* success with the wallet's account number (the default account when the
\* wallet has none) otherwise, a payment of the whole balance included; the
\* call leaves the stored wallet as it was.
C21_BalanceClassification ==
    [][\A p \in Requests :
          (pc[p] = "idle" /\ pc'[p] = "done" /\ BalanceCallReturned(p)'
           /\ result'[p].wallet_name \in DOMAIN walletDB)
          => LET r == result'[p]
                 balance == walletDB[r.wallet_name].balance
                 account == walletDB[r.wallet_name].account_number
             IN  /\ walletDB' = walletDB
                 /\ r.amount <= 0
                      => ~r.success /\ r.error = "Payment amount must be greater than zero."
                 /\ (r.amount > 0 /\ r.amount > balance)
                      => /\ ~r.success
                         /\ r.error = "Insufficient Funds in virtual wallet. Current balance is "
                                       \o ToString(balance)
                                       \o ", but you are trying to transfer "
                                       \o ToString(r.amount)
                 /\ (r.amount > 0 /\ r.amount <= balance)
                      => /\ r.success
                         /\ r.account_number =
                                IF account = "" THEN DEFAULT_WALLET_ACCOUNT ELSE account]_vars

\* A payment of the whole balance was accepted, from a wallet that has its
\* own account number.
C21_Witness ==
    \E p \in Requests :
        /\ BalanceCallReturned(p)
        /\ result[p].wallet_name \in DOMAIN walletDB
        /\ result[p].amount = walletDB[result[p].wallet_name].balance
        /\ result[p].amount > 0
        /\ result[p].success
        /\ result[p].account_number = "9000000001"

\* A request past its PIN and balance checks whose destination bank has no
\* usable BanksB document, while none of the four token sources is set.
NeitherResolvable(p) ==
    /\ pc[p] = "get_token"
    /\ {"PinVerified", "BalanceValidated"} \subseteq events[p]
    /\ tokenSources.LIVE_TOKEN = "" /\ tokenSources.PAYABLE_LIVE_TOKEN = ""
    /\ tokenSources.conf_live_token = "" /\ tokenSources.settings_live_token = ""
    /\ \/ frame[p].destination_bank \notin DOMAIN bankDB
       \/ bankDB[frame[p].destination_bank] = ""

\* C22: when the PIN and balance checks passed and neither the bank code nor
\* the bearer token can be resolved, make_virtual_payment aborts with the
\* bank-code error.
C22_BankCodeErrorFirst ==
    [][\A p \in Requests :
          (NeitherResolvable(p) /\ pc'[p] = "done")
          => result'[p] = Failure("Bank code not found")]_vars

\* C22 (amended): in that case make_virtual_payment aborts with the token
\* error: the bearer token is resolved before the bank code.
C22_TokenErrorFirst ==
    [][\A p \in Requests :
          (NeitherResolvable(p) /\ pc'[p] = "done")
          => result'[p] = Failure("Bearer token not found")]_vars

\* A request stands past both checks with neither the bank code nor the
\* token resolvable.
C22_Witness ==
    \E p \in Requests : NeitherResolvable(p)

\* The _process_payment_request calls that returned.
RequestCallReturned(p) ==
    result[p].returned /\ result[p].call = "_process_payment_request"

\* The fields of the transfer request the claim requires, and whether the
\* document supplies them.
BankCodeMissing(doc) ==
    /\ doc.destination_bank_code = ""
    /\ \/ doc.destination_bank \notin DOMAIN bankDB
       \/ bankDB[doc.destination_bank] = ""
AccountMissing(doc) == doc.destination_account_number = ""
AmountMissing(doc) == doc.amount <= 0
AccountNotTenLong(doc) == Len(doc.destination_account_number) # 10

\* Every violated field of the document, named in the order of the checks.
ViolatedFields(doc) ==
    (IF BankCodeMissing(doc)
     THEN <<"destination_bank_code is missing or could not be retrieved">> ELSE <<>>)
    \o (IF AccountMissing(doc) THEN <<"destination_account_number is missing">> ELSE <<>>)
    \o (IF AmountMissing(doc)
        THEN <<"amount is invalid: " \o ToString(doc.amount)>> ELSE <<>>)
    \o (IF AccountNotTenLong(doc)
        THEN <<"destination_account_number should be 10 digits: "
               \o doc.destination_account_number>>
        ELSE <<>>)

\* C23: when the bank code, the destination account number or a positive
\* amount is missing, or the account number is not exactly 10 characters
\* long, _process_payment_request fails with "Request validation failed: "
\* followed by every violated field, and has issued no POST; a document
\* with none of these defects gets at least one POST.
C23_ValidationListsEveryField ==
    \A p \in Requests :
        RequestCallReturned(p)
        => LET doc == result[p].doc
           IN  IF ViolatedFields(doc) # <<>>
               THEN /\ ~result[p].success
                    /\ result[p].error =
                           "Request validation failed: " \o join(ViolatedFields(doc))
                    /\ posts[p] = 0
               ELSE posts[p] >= 1

\* A document lacking the bank code and a positive amount, with an account
\* number of 8 characters, was refused with all three listed.
C23_Witness ==
    \E p \in Requests :
        /\ RequestCallReturned(p)
        /\ BankCodeMissing(result[p].doc)
        /\ AmountMissing(result[p].doc)
        /\ result[p].doc.destination_account_number = "81692469"
        /\ Len(ViolatedFields(result[p].doc)) = 3
        /\ ~result[p].success
        /\ posts[p] = 0

\* The _get_bearer_token calls that returned.
TokenCallReturned(p) ==
    result[p].returned /\ result[p].call = "_get_bearer_token"

\* The sources in the order the claim gives them.
SourceOrder ==
    <<tokenSources.LIVE_TOKEN, tokenSources.PAYABLE_LIVE_TOKEN,
      tokenSources.conf_live_token, tokenSources.settings_live_token>>

\* C24: _get_bearer_token returns the value of the first non-empty source
\* in the order LIVE_TOKEN, PAYABLE_LIVE_TOKEN, site configuration
\* live_token, System Settings live_token, and returns nothing exactly when
\* all four are empty.
C24_FirstNonEmptySource ==
    \A p \in Requests :
        TokenCallReturned(p)
        => /\ \A i \in 1 .. 4 :
                  (SourceOrder[i] # "" /\ \A j \in 1 .. (i - 1) : SourceOrder[j] = "")
                  => result[p].token = SourceOrder[i]
           /\ result[p].token = "" <=> \A i \in 1 .. 4 : SourceOrder[i] = ""

\* With both environment variables unset, the configured token was
\* returned although System Settings holds another.
C24_Witness ==
    \E p \in Requests :
        /\ TokenCallReturned(p)
        /\ tokenSources.LIVE_TOKEN = "" /\ tokenSources.PAYABLE_LIVE_TOKEN = ""
        /\ tokenSources.conf_live_token = "tok-conf"
        /\ tokenSources.settings_live_token = "tok-settings"
        /\ result[p].token = "tok-conf"

\* C25: after any sequence of BanksB saves, no two stored banks own the
\* same stored settlement code.
C25_StoredCodesUnique ==
    \A a \in DOMAIN bankDB : \A b \in DOMAIN bankDB :
        a # b => bankDB[a] # bankDB[b]

\* The fetch_and_save_banks calls that returned, having received a listing.
SyncCallReturned(p) ==
    /\ result[p].returned /\ result[p].call = "fetch_and_save_banks"
    /\ result[p].bearer_token # ""
    /\ result[p].response.kind = "http" /\ result[p].response.status_code = 200
    /\ result[p].response.parses

\* C26: a directory sync that received a bank listing reports status ok and
\* leaves the directory in a state that a second sync of the same listing
\* does not change; when every listed code is already stored the sync
\* itself changes nothing (no insert, no update).
C26_SyncIdempotent ==
    [][\A p \in Requests :
          (pc[p] = "idle" /\ pc'[p] = "done" /\ SyncCallReturned(p)')
          => LET listing == result'[p].response.data
             IN  /\ result'[p].status = "ok"
                 /\ save_listed_banks(bankDB', listing) = bankDB'
                 /\ (\A i \in DOMAIN listing :
                        \E n \in DOMAIN bankDB : bankDB[n] = listing[i].bankCode)
                    => bankDB' = bankDB]_vars

\* A sync of two banks returned ok with both banks stored under the listed
\* codes.
C26_Witness ==
    \E p \in Requests :
        /\ SyncCallReturned(p)
        /\ result[p].status = "ok"
        /\ result[p].response.data =
               <<[bankName |-> "Bank A", bankCode |-> <<"1", "0">>],
                 [bankName |-> "Bank B", bankCode |-> <<"X", "1">>]>>
        /\ DOMAIN bankDB = {"Bank A", "Bank B"}
        /\ bankDB["Bank A"] = <<"1", "0">> /\ bankDB["Bank B"] = <<"X", "1">>

\* The process_bank_verification calls that returned.
VerificationReturned(p) ==
    result[p].returned /\ result[p].call = "process_bank_verification"

\* The bearer token and the bank code of the document's bank are there.
TokenAndBankResolved(p) ==
    /\ \E i \in 1 .. 4 : SourceOrder[i] # ""
    /\ frame[p].destination_bank \in DOMAIN bankDB
    /\ bankDB[frame[p].destination_bank] # ""

\* C27: process_bank_verification on an account number shorter than 10
\* characters fails without a single GET; with the bearer token and the bank
\* code resolved, the error is "Invalid account number format".
C27_ShortAccountNoGet ==
    \A p \in Requests :
        (VerificationReturned(p) /\ Len(frame[p].destination_account_number) < 10)
        => /\ ~result[p].success
           /\ posts[p] = 0
           /\ TokenAndBankResolved(p) => result[p].error = "Invalid account number format"

\* The 8-character account number was refused as invalid, with no GET.
C27_Witness ==
    \E p \in Requests :
        /\ VerificationReturned(p)
        /\ frame[p].destination_account_number = "81692469"
        /\ result[p].error = "Invalid account number format"
        /\ posts[p] = 0

\* The process_bank_verification calls that got as far as account
\* resolution (_verify_bank_account).
ResolutionReturned(p) ==
    /\ VerificationReturned(p)
    /\ TokenAndBankResolved(p)
    /\ Len(frame[p].destination_account_number) >= 10

\* The accountName of the response's body is a text, blank or not.
NamedIn(response) ==
    response.body.parses /\ response.body.accountName \notin {Absent, Null}

C29_FaultsBecomeResults ==
    \A p \in Requests :
        pc[p] = "done"
        => /\ result[p].returned
           /\ result[p].success \in BOOLEAN
           /\ ~result[p].success => result[p].error # ""

\* A fault raised after the gateway had accepted the transfer came back as
\* a failed result of the outer handler.
C29_Witness ==
    \E p \in Requests :
        /\ pc[p] = "done"
        /\ "TransferSucceeded" \in events[p]
        /\ result[p] = Failure("Payment error: fault")

\* The wallet deletions that went through.
TrashReturned(p) ==
    result[p].returned /\ result[p].call = "on_trash"

NotificationFailed(response) ==
    \/ response.kind # "http"
    \/ response.status_code \notin {200, 201}
    \/ response.body = "not json"

\* The create_wallet calls whose account reservation went through.
ReservationDone(p) ==
    /\ result[p].returned /\ result[p].call = "create_wallet"
    /\ result[p].wallet_name # "" /\ Len(result[p].bvn) = 11
    /\ tokenSources.LIVE_TOKEN # ""
    /\ result[p].reservation.kind = "http" /\ result[p].reservation.status_code = 201
    /\ result[p].reservation.body = "data"

\* C31: a failed admin notification is logged and goes no further: the
\* deletion of the wallet goes through (on_trash does not raise), and
\* create_wallet, once the account is reserved on a record without a wallet
\* id, reports the wallet as created (with a warning, no error) and the
\* saved wallet stays.
C31_NotificationsFireAndForget ==
    [][\A p \in Requests :
          /\ (pc[p] = "idle" /\ pc'[p] = "done" /\ TrashReturned(p)'
               /\ NotificationFailed(result'[p].response))
              => /\ ~result'[p].raised
                 /\ result'[p].logged \in {"Del Req Error", "Del Error", "Del API Error",
                                            "Del Parse Error"}
                 /\ result'[p].wallet_name \notin DOMAIN walletDB'
          /\ (pc[p] = "idle" /\ pc'[p] = "done" /\ ReservationDone(p)'
               /\ result'[p].wallet_name \notin DOMAIN walletDB
               /\ NotificationFailed(result'[p].admin))
              => /\ result'[p].error = ""
                 /\ result'[p].info = "Virtual wallet created successfully!"
                 /\ result'[p].warning # ""
                 /\ result'[p].wallet_name \in DOMAIN walletDB']_vars

\* A wallet was created although the notification of the admin system
\* ended in a fault.
C31_Witness ==
    \E p \in Requests :
        /\ ReservationDone(p)
        /\ result[p].admin.kind = "RequestException"
        /\ result[p].info = "Virtual wallet created successfully!"
        /\ result[p].warning # ""
        /\ result[p].wallet_name \in DOMAIN walletDB

\* C32: a request that make_virtual_payment answered with success = false
\* got HTTP 200 from none of its transfer calls (only the last call of a
\* request can have been answered 200: a 200 ends the retry loop).
C32_FailureMeansNoTransfer ==
    \A p \in Requests :
        (pc[p] = "done" /\ result[p].returned /\ ~result[p].success)
        => ~(lastOutcome[p].kind = "http" /\ lastOutcome[p].status_code = 200)

\* C33: the transfer request agrees with what the orchestrator validated: its
\* sourceAccountNumber is the account number of the wallet that passed
\* validate_balance_for_wallet, and its destinationBankCode is the code the
\* Bank Directory holds for the destination bank.
ValidatedAccount(p) ==
    LET wallet_doc == walletDB[frame[p].payment_wallet]
    IN  IF wallet_doc.account_number # "" THEN wallet_doc.account_number
        ELSE DEFAULT_WALLET_ACCOUNT

C33_RequestMatchesValidated ==
    \A p \in Requests :
        pc[p] = "post"
        => /\ frame[p].post_data.sourceAccountNumber = ValidatedAccount(p)
           /\ frame[p].post_data.destinationBankCode = bankDB[frame[p].destination_bank]

\* C34: within one _process_payment_request invocation at most 2 backoff
\* sleeps occur, a sleep is always followed by another attempt (none after the
\* last attempt), the index into RETRY_DELAYS is within bounds, and the third
\* entry of the schedule (10 seconds) is never slept.
LoopEnded(p) == pc[p] \in {"update_balance", "record_transaction", "done"}

C34_SleepsOnlyBetweenAttempts ==
    \A p \in Requests :
        /\ Len(sleeps[p]) <= 2
        /\ \A i \in 1 .. Len(sleeps[p]) :
               /\ i \in 1 .. Len(RETRY_DELAYS)
               /\ sleeps[p][i] = RETRY_DELAYS[i]
               /\ sleeps[p][i] # 10
        /\ pc[p] = "post"
           => /\ frame[p].attempt \in 0 .. Len(RETRY_DELAYS) - 1
              /\ Len(sleeps[p]) = posts[p]
        /\ (LoopEnded(p) /\ posts[p] > 0) => Len(sleeps[p]) = posts[p] - 1

C34_Witness ==
    \E p \in Requests :
        /\ pc[p] = "done"
        /\ posts[p] = 3
        /\ sleeps[p] = <<2, 5>>
        /\ ~result[p].success

\* C35: reconciliation never creates or corrupts records: update_status for a
\* reference that has no record leaves Transaction History as it was, and a
\* check_transaction_status_api call whose GET ended in a status other than
\* 200 or in a network fault leaves every record unchanged.
HasRecord(transaction_reference) ==
    \E i \in 1 .. Len(txnDB) : txnDB[i].transaction_reference = transaction_reference

C35_ReconciliationFrame ==
    [][\A p \in Requests :
          (pc[p] = "idle" /\ pc'[p] = "done")
          => /\ (result'[p].call = "update_status" /\ ~HasRecord(result'[p].reference))
                => txnDB' = txnDB
             /\ (/\ result'[p].call = "check_transaction_status_api"
                 /\ lastOutcome'[p] # NoOutcome
                 /\ ~(lastOutcome'[p].kind = "http" /\ lastOutcome'[p].status_code = 200))
                => (txnDB' = txnDB /\ ~result'[p].success)]_vars

C35_Witness ==
    \E p \in Requests :
        /\ pc[p] = "done"
        /\ result[p].call = "update_status"
        /\ result[p].doc = NoDoc
        /\ ~HasRecord(result[p].reference)
        /\ txnDB # <<>>

\* C36: after process_bank_verification returns, the stored
\* destination_account_name is the returned account name when the result is a
\* success and is empty when the result is a failure; a name verified earlier
\* does not survive a failed re-verification.
C36_StoredNameFollowsResult ==
    \A p \in Requests :
        (pc[p] = "done" /\ result[p].call = "process_bank_verification")
        => IF result[p].success
           THEN /\ frame[p].destination_account_name = result[p].account_name
                /\ result[p].account_name # <<>>
           ELSE frame[p].destination_account_name = <<>>

C36_Witness ==
    \E p \in Requests :
        /\ pc[p] = "done"
        /\ result[p].call = "process_bank_verification"
        /\ ~result[p].success
        /\ posts[p] = 1
        /\ result[p].response.kind = "http"
        /\ result[p].response.status_code = 404
        /\ frame[p].destination_account_name = <<>>

\* C37: the two PIN checks agree: for a wallet with a PIN record and any PIN
\* text, verify_and_update_pin accepts the text as current_pin exactly when
\* verify_transaction_pin accepts it as the wallet's PIN (for a caller who may
\* use the wallet); and verify_and_update_pin changes the stored PIN only
\* when it accepted current_pin.
PinChangeReturned(p) ==
    /\ pc[p] = "idle"
    /\ pc'[p] = "done"
    /\ result'[p].call = "verify_and_update_pin"

C37_PinChecksAgree ==
    [][\A p \in Requests :
          (/\ PinChangeReturned(p)
           /\ result'[p].wallet_name \in DOMAIN walletDB
           /\ pinDB[result'[p].wallet_name].exists)
          => /\ result'[p].success
                <=> verify_transaction_pin(walletDB, pinDB, result'[p].wallet_name,
                                           result'[p].transaction_pin,
                                           {ManagerRole}).success
             /\ ~result'[p].success => pinDB' = pinDB]_vars

\* C38: on the legacy make_payment path the single Wallet Balance stays
\* within 0 .. the initial balance over any sequence of calls with any
\* amount: a call leaves the balance unchanged or decreases it, and decreases
\* it only after the gateway answered HTTP 200 with non-empty data.
LegacyBalance == walletDB[WalletBalance].wallet_balance

AnsweredWithData(response) ==
    /\ response.kind = "http"
    /\ response.status_code = 200
    /\ response.body.parses
    /\ response.body.data # NoData

C38_LegacyBalanceWithinInitial ==
    [][\A p \in Requests :
          (pc[p] = "idle" /\ pc'[p] = "done" /\ result'[p].call = "make_payment")
          => /\ LegacyBalance' \in 0 .. openingBalance
             /\ LegacyBalance' <= LegacyBalance
             /\ LegacyBalance' < LegacyBalance
                => (result'[p].posted /\ AnsweredWithData(result'[p].response))]_vars
====
